---- MODULE Spec2Model ----
(***************************************************************************)
(* Verification model of the weekly-report synchronisation engine          *)
(* (core/order_export.py, core/spreadsheet_uploader.py,                    *)
(* core/weekly_scheduler.py).                                              *)
(*                                                                         *)
(* The module holds one state machine per operation that is examined:      *)
(*   SpecFetch    ShopifyOrderExporter.fetch_orders_from_store             *)
(*   SpecChunk    ShopifyOrderExporter.get_date_ranges_chunked             *)
(*   SpecBackfill ShopifyOrderExporter.fetch_all_orders_chunked            *)
(*   SpecConvert  ShopifyOrderExporter.convert_to_csv_data                 *)
(*   SpecUpload   SpreadsheetUploader.upload_with_duplicate_handling       *)
(*   SpecCapacity SpreadsheetUploader._ensure_sheet_has_rows and           *)
(*                _ensure_sheet_capacity                                   *)
(*   SpecUpdate   SpreadsheetUploader.update_duplicate_rows (batching)     *)
(*   SpecWeekly   WeeklyScheduler.run_weekly_report                        *)
(*   SpecHistory  save_execution_history, _save_execution_history          *)
(*   SpecParallel fetch_all_orders_parallel, fetch_all_customers           *)
(*   SpecRead     SpreadsheetUploader._get_data_in_batches                 *)
(*   SpecMoney    ShopifyOrderExporter.convert_to_csv_data, money fields   *)
(*   SpecCustomers CustomerDBGenerator.fetch_customers_from_store          *)
(* Each specification moves only its own variables; the variables of the   *)
(* other operations keep their initial values.                             *)
(***************************************************************************)
EXTENDS Integers, Sequences, FiniteSets, TLC

(***************************************************************************)
(* Bounds of the model (not program constants).                            *)
(***************************************************************************)
\* page requests issued by one run of fetch_orders_from_store against a
\* server that varies its pages (sizes, repeated records, unusable edges)
MaxPages == 5
\* page requests issued by one run against a server that serves either one
\* record or a full page
MaxSteadyPages == 19
\* order names are the numbers 1..MaxName
MaxName == 190
\* readings of the clock within one day (reading 0 is midnight)
TicksPerDay == 2
\* days between 2019-01-01 and the day get_date_ranges_chunked runs
MaxToday == 100
\* largest chunk_months argument
MaxChunkMonths == 2
\* windows of one backfill
MaxWindows == 2
\* order names of a backfill are the numbers 1..MaxBackfillName
MaxBackfillName == 2
\* orders handed to one call of convert_to_csv_data
MaxOrders == 2
\* their names are the numbers 1..MaxConvertName
MaxConvertName == 2
\* line items of one order
MaxLineItems == 2
\* data rows of the sheet before an upload
MaxTableRows == 2
\* new rows handed to one upload
MaxNewRows == 2
\* the Name cells of an upload are the numbers 1..MaxKey (0: an empty cell)
MaxKey == 2
MaxCalls == 3
MaxUpdates == 401
MaxRuns == 2
MaxSaves == 11
MaxStarts == 1
MaxStores == 3
MaxStoreRecords == 2
MaxReadRows == 6
MaxReadBatchSize == 3
\* characters of the source string of a money field
MaxAmountLen == 3
\* pages of one customer extraction, and customers kept from one page
MaxCustomerPages == 3
MaxPageCustomers == 2

(***************************************************************************)
(* Program constants of fetch_orders_from_store.                           *)
(***************************************************************************)
InitialBatchSize == 75
MinBatchSize == 25
BatchStep == 10
SmallBatchRun == 3
max_retries == 3
BackoffBase == 20
BackoffCap == 120
PageDelay == 2

Max(a, b) == IF a >= b THEN a ELSE b
Min(a, b) == IF a <= b THEN a ELSE b

\* Python's None for a cursor; an order name 0 stands for an edge without a
\* usable node/name (null edge, null node, or a node whose name is empty).
None == 0
NoName == 0

VARIABLES
    \* ---- fetch_orders_from_store ----
    f_pc,                       \* "attempt" | "waiting" | "done"
    store_orders,               \* list of kept orders (their names)
    seen_order_names,           \* set of names already kept
    cursor,                     \* cursor of the next request, None at first
    page_count,                 \* page requests issued so far
    batch_size,                 \* requested page size
    consecutive_small_batches,  \* run of small pages
    retry_count,                \* failed attempts of the current page
    success,                    \* the current page was processed
    inflight,                   \* the request sent and not yet answered
    wait_time,                  \* seconds of the last time.sleep
    f_result,                   \* what the call handed to its caller
    stop_reason,                \* which return statement ended the call
    srv_end_cursor,             \* endCursor of the last page the server served
    pages_names,                \* names of all usable edges of the processed pages
    srv_has_next,               \* hasNextPage of the last page the server served
    srv_pages,                  \* pages served and processed so far
    last_signal,                \* how the last page request ended
    skipped_total,              \* duplicates skipped so far (sum of page_duplicates)
    served_small_run,           \* run of pages with len(edges) < batch_size * 0.5
    srv_profile,                \* how the server of this run behaves
    \* ---- get_date_ranges_chunked ----
    c_pc,                       \* "call" | "loop" | "done"
    c_mode,                     \* the mode argument
    chunk_months,               \* the chunk_months argument
    c_now,                      \* the reading of datetime.now()
    current_start,              \* start of the next window (a datetime)
    date_ranges,                \* the windows appended so far
    c_result,                   \* what the call handed to its caller
    \* ---- fetch_all_orders_chunked ----
    b_pc,                       \* "fetching" | "done"
    b_windows,                  \* len(date_ranges)
    b_i,                        \* index of the window being fetched
    b_pending,                  \* stores whose fetch has not completed yet
    period_orders,              \* all_orders of fetch_all_orders_parallel
    global_seen_order_names,    \* names kept in any window so far
    all_orders,                 \* the output list
    b_sleep,                    \* seconds of the last time.sleep
    returned_in,                \* per name, the windows whose queries returned it
    b_result,                   \* what the call handed to its caller
    \* ---- convert_to_csv_data ----
    v_pc,                       \* "start" | "loop" | "done"
    v_orders,                   \* the orders argument
    v_i,                        \* orders visited so far
    csv_data,                   \* the rows built so far
    v_errors,                   \* orders whose conversion raised
    v_result,                   \* what the call handed to its caller
    \* ---- upload_with_duplicate_handling ----
    sheet_exists,               \* the spreadsheet holds a sheet of that name
    table,                      \* the rows of the sheet, row 1 first
    grid_rows,                  \* gridProperties.rowCount of the sheet
    u_pc,                       \* position in upload_with_duplicate_handling
    u_data,                     \* the data argument: header row and new rows
    overwrite_mode,             \* the overwrite_mode argument
    existing_data,              \* what get_existing_data returned
    duplicate_info,             \* what find_duplicate_rows returned
    next_empty_row,             \* row number at which the appends start
    u_requests,                 \* the updateCells requests, in order
    u_sent,                     \* requests handed to a batchUpdate so far
    u_failed_batches,           \* batches whose batchUpdate raised
    u_appended,                 \* rows written by append_new_rows
    u_result,                   \* "running", or the returned "True" / "False"
    table_before,               \* the rows of the sheet when the run began
    u_id_failed,                \* a _get_sheet_id call of the run returned None
    u_updated,                  \* update requests the service has applied
    u_formatted,                \* rows named by the formatting requests
    \* ---- _ensure_sheet_has_rows, _ensure_sheet_capacity ----
    k_pc,                       \* "idle" | "write"
    capacity,                   \* gridProperties.rowCount of the sheet
    k_calls,                    \* calls of a capacity operation so far
    k_last,                     \* the last call: what it saw, asked and returned
    k_grows,                    \* grow requests the server has applied
    k_written,                  \* last row number written after a call
    \* ---- update_duplicate_rows, by request counts ----
    d_pc,                       \* "start" | "loop" | "done"
    d_requests,                 \* len(requests), one request per duplicate
    d_i,                        \* the loop variable i of the batch loop
    d_calls,                    \* the batchUpdate calls made, in order
    d_result,                   \* what update_duplicate_rows returned
    \* ---- run_weekly_report ----
    w_pc,                       \* where the run is; "idle" between two runs
    w_runs,                     \* runs started by the scheduler so far
    w_notify,                   \* the argument notify of the run
    w_status,                   \* the status last stored by _update_status
    w_trace,                    \* the statuses stored by this run, in order
    w_completed,                \* the steps of this run that ended well
    w_export,                   \* "none" | "ok" | "failed": the export itself
    w_upload,                   \* "none" | "ok" | "failed": the upload itself
    w_data_success,             \* what _update_order_data returned
    execution_history,          \* self.execution_history
    w_result,                   \* what run_weekly_report returned
    \* ---- execution_history.json and its two writers ----
    history_file,               \* the records held by execution_history.json
    h_execution_history,        \* WeeklyScheduler.execution_history, in memory
    h_saved,                    \* every record handed to a save, in order
    h_starts,                   \* scheduler objects constructed so far
    \* ---- fetch_all_orders_parallel, fetch_all_customers ----
    p_kind,                     \* "orders" | "customers": which function runs
    p_stores,                   \* number of active stores
    p_state,                    \* per store: queued, running, fetched, merged, failed
    p_result,                   \* per store: the list its extraction returned
    p_all,                      \* all_orders / all_customers
    p_returned,                 \* the function has returned p_all
    \* ---- _get_data_in_batches ----
    r_pc,                       \* "loop" | "done"
    r_total_rows,               \* rows the sheet holds (argument total_rows)
    r_batch_size,               \* argument batch_size
    r_batch_num,                \* the loop variable batch_num
    r_all_data,                 \* all_data
    r_failed,                   \* the batches whose read raised
    \* ---- a money field of convert_to_csv_data ----
    m_pc,                       \* "read" | "written"
    amount,                     \* source value of ...['shopMoney'].get('amount', '0')
    money_cell,                 \* the string written to the row
    \* ---- fetch_customers_from_store ----
    g_pc,                       \* "loop" | "done"
    store_customers,            \* customers kept so far: <<page, index>>
    g_page_count,               \* page_count
    g_stop,                     \* how the loop ended
    g_result                    \* the returned list

fetchVars == <<f_pc, store_orders, seen_order_names, cursor, page_count,
               batch_size, consecutive_small_batches, retry_count, success,
               inflight, wait_time, f_result, stop_reason, srv_end_cursor,
               pages_names, srv_has_next, srv_pages, last_signal,
               skipped_total, served_small_run, srv_profile>>

chunkVars == <<c_pc, c_mode, chunk_months, c_now, current_start, date_ranges,
               c_result>>

backfillVars == <<b_pc, b_windows, b_i, b_pending, period_orders,
                  global_seen_order_names, all_orders, b_sleep, returned_in,
                  b_result>>

convertVars == <<v_pc, v_orders, v_i, csv_data, v_errors, v_result>>

uploadVars == <<sheet_exists, table, grid_rows, u_pc, u_data, overwrite_mode,
                existing_data, duplicate_info, next_empty_row, u_requests,
                u_sent, u_failed_batches, u_appended, u_result, table_before,
                u_id_failed, u_updated, u_formatted>>

capacityVars == <<k_pc, capacity, k_calls, k_last, k_grows, k_written>>

updateVars == <<d_pc, d_requests, d_i, d_calls, d_result>>

weeklyVars == <<w_pc, w_runs, w_notify, w_status, w_trace, w_completed,
    w_export, w_upload, w_data_success, execution_history, w_result>>

historyVars == <<history_file, h_execution_history, h_saved, h_starts>>

parallelVars == <<p_kind, p_stores, p_state, p_result, p_all, p_returned>>

readVars == <<r_pc, r_total_rows, r_batch_size, r_batch_num, r_all_data,
    r_failed>>

moneyVars == <<m_pc, amount, money_cell>>

customersVars == <<g_pc, store_customers, g_page_count, g_stop, g_result>>

vars == <<fetchVars, chunkVars, backfillVars, convertVars, uploadVars,
         capacityVars, updateVars, weeklyVars, historyVars, parallelVars,
         readVars, moneyVars, customersVars>>

\* The variables of an operation that is not examined keep these values.
ChunkIdle ==
    /\ c_pc = "call"
    /\ c_mode = "all_time"
    /\ chunk_months = 1
    /\ c_now = 0
    /\ current_start = 0
    /\ date_ranges = <<>>
    /\ c_result = [kind |-> "running", ranges |-> <<>>]

FetchFrame == UNCHANGED <<chunkVars, backfillVars, convertVars, uploadVars,
    capacityVars, updateVars, weeklyVars, historyVars, parallelVars, readVars,
    moneyVars, customersVars>>
ChunkFrame == UNCHANGED <<fetchVars, backfillVars, convertVars, uploadVars,
    capacityVars, updateVars, weeklyVars, historyVars, parallelVars, readVars,
    moneyVars, customersVars>>
BackfillFrame == UNCHANGED <<fetchVars, chunkVars, convertVars, uploadVars,
    capacityVars, updateVars, weeklyVars, historyVars, parallelVars, readVars,
    moneyVars, customersVars>>
ConvertFrame == UNCHANGED <<fetchVars, chunkVars, backfillVars, uploadVars,
    capacityVars, updateVars, weeklyVars, historyVars, parallelVars, readVars,
    moneyVars, customersVars>>
UploadFrame == UNCHANGED <<fetchVars, chunkVars, backfillVars, convertVars,
    capacityVars, updateVars, weeklyVars, historyVars, parallelVars, readVars,
    moneyVars, customersVars>>
CapacityFrame == UNCHANGED <<fetchVars, chunkVars, backfillVars, convertVars,
    uploadVars, updateVars, weeklyVars, historyVars, parallelVars, readVars,
    moneyVars, customersVars>>
UpdateFrame == UNCHANGED <<fetchVars, chunkVars, backfillVars, convertVars,
    uploadVars, capacityVars, weeklyVars, historyVars, parallelVars, readVars,
    moneyVars, customersVars>>
WeeklyFrame == UNCHANGED <<fetchVars, chunkVars, backfillVars, convertVars,
    uploadVars, capacityVars, updateVars, historyVars, parallelVars, readVars,
    moneyVars, customersVars>>
HistoryFrame == UNCHANGED <<fetchVars, chunkVars, backfillVars, convertVars,
    uploadVars, capacityVars, updateVars, weeklyVars, parallelVars, readVars,
    moneyVars, customersVars>>
ParallelFrame == UNCHANGED <<fetchVars, chunkVars, backfillVars, convertVars,
    uploadVars, capacityVars, updateVars, weeklyVars, historyVars, readVars,
    moneyVars, customersVars>>
ReadFrame == UNCHANGED <<fetchVars, chunkVars, backfillVars, convertVars,
    uploadVars, capacityVars, updateVars, weeklyVars, historyVars,
    parallelVars, moneyVars, customersVars>>
MoneyFrame == UNCHANGED <<fetchVars, chunkVars, backfillVars, convertVars,
    uploadVars, capacityVars, updateVars, weeklyVars, historyVars,
    parallelVars, readVars, customersVars>>
CustomersFrame == UNCHANGED <<fetchVars, chunkVars, backfillVars, convertVars,
    uploadVars, capacityVars, updateVars, weeklyVars, historyVars,
    parallelVars, readVars, moneyVars>>

(***************************************************************************)
(* execute_graphql_query: the outcome of one HTTP exchange, as the         *)
(* function turns it into a return value or lets an exception escape.      *)
(*   "data"          200, body {"data": {"orders": ...}}                   *)
(*   "gql_throttled" 200, body {"errors": [{"message": "Throttled"}]}      *)
(*   "gql_error"     200, body {"errors": [...]} of another kind           *)
(*   "http_429"      raise_for_status raises HTTPError 429                 *)
(*   "http_500"      raise_for_status raises HTTPError 5xx                 *)
(*   "timeout"       requests.post raises a RequestException               *)
(*   "no_orders"     200, body {"data": {...}} without the key 'orders'    *)
(*   "no_data"       200, body with neither 'errors' nor 'data': KeyError  *)
(*   "exc_throttled" an exception that is no RequestException and no       *)
(*                   JSONDecodeError and whose text holds 'Throttled' or   *)
(*                   'RATE_LIMIT'                                          *)
(***************************************************************************)
RateLimitSignals == {"gql_throttled", "http_429", "exc_throttled"}
RawKinds == {"data", "gql_throttled", "gql_error", "http_429", "http_500",
             "timeout", "no_orders", "no_data", "exc_throttled"}

\* what the exchange was, seen from the server's side
signal_of(raw) ==
    IF raw \in RateLimitSignals THEN "rate_limit"
    ELSE IF raw = "data" THEN "data" ELSE "error"

execute_graphql_query(raw) ==
    CASE raw = "data"          -> [tag |-> "return", val |-> "orders"]
      [] raw = "no_orders"     -> [tag |-> "return", val |-> "other"]
      [] raw = "gql_throttled" -> [tag |-> "return", val |-> "None"]
      [] raw = "gql_error"     -> [tag |-> "return", val |-> "None"]
      [] raw = "http_429"      -> [tag |-> "return", val |-> "None"]
      [] raw = "http_500"      -> [tag |-> "return", val |-> "None"]
      [] raw = "timeout"       -> [tag |-> "return", val |-> "None"]
      [] raw = "no_data"       -> [tag |-> "raise", val |-> "KeyError"]
      [] raw = "exc_throttled" -> [tag |-> "raise", val |-> "Throttled"]

(***************************************************************************)
(* The pages a server can answer with.  A page is a run of n consecutive   *)
(* orders lo..lo+n-1 followed by `bad` edges without a usable name, plus   *)
(* pageInfo.  A page may repeat the last d orders served before it.        *)
(***************************************************************************)
Range(lo, n) == [i \in 1..n |-> lo + i - 1]
Repeat(x, n) == [i \in 1..n |-> x]

PageLens(first, profile) ==
    IF profile = "varied" THEN {n \in {0, 1, 40, first} : n <= first}
    ELSE {1, first}
PageOverlaps(profile) == IF profile = "varied" THEN {0, 35} ELSE {0}
PageBad(profile) == IF profile = "varied" THEN {0, 1} ELSE {0}
PageCursors(profile) == IF profile = "varied" THEN BOOLEAN ELSE {TRUE}
\* a steady server answers, or fails with a 5xx
Outcomes(profile) == IF profile = "varied" THEN RawKinds ELSE {"data", "http_500"}
PageBudget(profile) == IF profile = "varied" THEN MaxPages ELSE MaxSteadyPages
Profiles == {"varied", "steady"}

Edges(page) == Range(page.lo, page.n) \o Repeat(NoName, page.bad)

\* the pages the server can serve to a request for `first` records when it
\* has served the orders 1..served so far
Pages(first, served, profile) ==
    { [lo |-> served + 1 - d, n |-> n, bad |-> b,
       hasNextPage |-> h,
       endCursor |-> IF c THEN served + 1 - d + n ELSE None] :
        n \in PageLens(first, profile), d \in PageOverlaps(profile),
        b \in PageBad(profile), h \in BOOLEAN, c \in PageCursors(profile) }

ValidPage(page, first, served) ==
    /\ page.n + page.bad <= first
    /\ page.lo >= 1
    /\ page.lo + page.n - 1 <= MaxName
    /\ page.lo <= served + 1
    /\ (served + 1 - page.lo) <= page.n

(***************************************************************************)
(* The loop over the edges of one page (lines 388-410).                    *)
(***************************************************************************)
\* variant: the membership test of line 397 is lost
is_duplicate_never(order_name, seen) == FALSE

is_duplicate(order_name, seen) == order_name \in seen

\* The loop visits the edges in order.  At edge i the set of seen names is
\* the set before the page plus the usable names of the edges 1..i-1 of the
\* page (each of them was either kept and added, or was in the set already).
seen_at(edges, i, seen) ==
    seen \cup {edges[j] : j \in {k \in 1..(i - 1) : edges[k] # NoName}}

\* edge i passes the checks of lines 390-400 and is appended (lines 402-406)
edge_kept(edges, i, seen) ==
    /\ edges[i] # NoName
    /\ ~is_duplicate(edges[i], seen_at(edges, i, seen))

\* the state after the whole loop: the orders kept in edge order, the seen
\* names, and page_duplicates (a usable edge is either kept or a duplicate)
process_edges(edges, orders, seen) ==
    LET tagged == [i \in 1..Len(edges) |-> <<edges[i], edge_kept(edges, i, seen)>>]
        kept == SelectSeq(tagged, LAMBDA p : p[2])
        usable == Len(SelectSeq(edges, LAMBDA e : e # NoName))
    IN [orders |-> orders \o [k \in 1..Len(kept) |-> kept[k][1]],
        seen |-> seen \cup {kept[k][1] : k \in 1..Len(kept)},
        page_duplicates |-> usable - Len(kept)]

(***************************************************************************)
(* Dynamic batch size adjustment (lines 415-426).                          *)
(***************************************************************************)
is_small_batch(actual_count, bs) == 2 * actual_count < bs

\* variant: the floor of line 422 is lost
shrink_batch_size_nofloor(bs) == bs - BatchStep

shrink_batch_size(bs) == Max(MinBatchSize, bs - BatchStep)

\* the page the server returned holds fewer than half of the requested records
served_small(returned, bs) == 2 * returned < bs

adjust_batch(actual_count, bs, small) ==
    IF is_small_batch(actual_count, bs)
    THEN IF small + 1 >= SmallBatchRun
         THEN [batch_size |-> shrink_batch_size(bs), small |-> 0]
         ELSE [batch_size |-> bs, small |-> small + 1]
    ELSE [batch_size |-> bs, small |-> 0]

\* variant: the cursor of the first edge is taken for the end cursor
end_cursor_first(page) == page.lo

\* page_info.get('endCursor') (line 434)
end_cursor(page) == page.endCursor

\* wait before the retry of a throttled page (line 448)
backoff_wait(attempt) == Min(BackoffBase * attempt, BackoffCap)

NoRequest == [cursor |-> None, first |-> 0]

FetchInit ==
    /\ f_pc = "attempt"
    /\ store_orders = <<>>
    /\ seen_order_names = {}
    /\ cursor = None
    /\ page_count = 0
    /\ batch_size = InitialBatchSize
    /\ consecutive_small_batches = 0
    /\ retry_count = 0
    /\ success = FALSE
    /\ inflight = NoRequest
    /\ wait_time = 0
    /\ f_result = [kind |-> "running", orders |-> <<>>]
    /\ stop_reason = "none"
    /\ srv_end_cursor = None
    /\ pages_names = {}
    /\ srv_has_next = FALSE
    /\ srv_pages = 0
    /\ last_signal = "none"
    /\ skipped_total = 0
    /\ served_small_run = 0
    /\ srv_profile \in Profiles

\* `return store_orders`
return_orders(returned, reason) ==
    /\ f_pc' = "done"
    /\ f_result' = [kind |-> "returned", orders |-> returned]
    /\ stop_reason' = reason

\* lines 368-374: one more attempt of the current page is started
SendPageRequest ==
    /\ f_pc = "attempt"
    /\ retry_count < max_retries /\ ~success
    /\ page_count < PageBudget(srv_profile)
    /\ page_count' = page_count + 1
    /\ inflight' = [cursor |-> cursor, first |-> batch_size]
    /\ f_pc' = "waiting"
    /\ FetchFrame
    /\ UNCHANGED <<store_orders, seen_order_names, cursor, batch_size,
                   consecutive_small_batches, retry_count, success, wait_time,
                   f_result, stop_reason, srv_end_cursor, pages_names,
                   srv_has_next, srv_pages, last_signal, skipped_total, served_small_run,
                   srv_profile>>

\* lines 376-378: the query returned None or a result without 'orders'
PageRequestFailed ==
    /\ f_pc = "waiting"
    /\ \E raw \in Outcomes(srv_profile) :
         LET result == execute_graphql_query(raw) IN
         /\ result.tag = "return"
         /\ result.val # "orders"
         /\ last_signal' = signal_of(raw)
    /\ return_orders(store_orders, "request_failed")
    /\ FetchFrame
    /\ UNCHANGED <<store_orders, seen_order_names, cursor, page_count, batch_size,
                   consecutive_small_batches, retry_count, success, inflight,
                   wait_time, srv_end_cursor, pages_names, srv_has_next,
                   srv_pages, skipped_total, served_small_run, srv_profile>>

\* lines 380-385: the page holds no edge
PageEmpty ==
    /\ f_pc = "waiting"
    /\ execute_graphql_query("data").tag = "return"
    /\ \E page \in Pages(inflight.first, Cardinality(pages_names), srv_profile) :
         /\ ValidPage(page, inflight.first, Cardinality(pages_names))
         /\ Len(Edges(page)) = 0
    /\ last_signal' = signal_of("data")
    /\ return_orders(store_orders, "no_edges")
    /\ FetchFrame
    /\ UNCHANGED <<store_orders, seen_order_names, cursor, page_count, batch_size,
                   consecutive_small_batches, retry_count, success, inflight,
                   wait_time, srv_end_cursor, pages_names, srv_has_next,
                   srv_pages, skipped_total, served_small_run, srv_profile>>

\* lines 387-440: a page with edges is processed
PageProcessed ==
    /\ f_pc = "waiting"
    /\ execute_graphql_query("data").tag = "return"
    /\ \E page \in Pages(inflight.first, Cardinality(pages_names), srv_profile) :
         /\ ValidPage(page, inflight.first, Cardinality(pages_names))
         /\ Len(Edges(page)) > 0
         /\ LET edges == Edges(page)
                done == process_edges(edges, store_orders, seen_order_names)
                actual_count == Len(edges) - done.page_duplicates
                adj == adjust_batch(actual_count, batch_size,
                                    consecutive_small_batches)
            IN
            /\ store_orders' = done.orders
            /\ seen_order_names' = done.seen
            /\ batch_size' = adj.batch_size
            /\ consecutive_small_batches' = adj.small
            /\ pages_names' = pages_names \cup (page.lo .. (page.lo + page.n - 1))
            /\ srv_end_cursor' = page.endCursor
            /\ srv_has_next' = page.hasNextPage
            /\ srv_pages' = srv_pages + 1
            /\ skipped_total' = skipped_total + done.page_duplicates
            /\ served_small_run' = IF served_small(Len(edges), batch_size)
                                   THEN served_small_run + 1
                                   ELSE 0
            /\ IF ~page.hasNextPage
               THEN /\ return_orders(done.orders, "last_page")
                    /\ UNCHANGED <<cursor, success>>
               ELSE /\ cursor' = end_cursor(page)
                    /\ IF page.endCursor = None
                       THEN /\ return_orders(done.orders, "no_cursor")
                            /\ UNCHANGED success
                       ELSE /\ success' = TRUE
                            /\ f_pc' = "attempt"
                            /\ UNCHANGED <<f_result, stop_reason>>
    /\ last_signal' = signal_of("data")
    /\ FetchFrame
    /\ UNCHANGED <<page_count, retry_count, inflight, wait_time, srv_profile>>

\* lines 442-452: an exception whose text names the rate limit
PageThrottledException ==
    /\ f_pc = "waiting"
    /\ \E raw \in Outcomes(srv_profile) :
         LET result == execute_graphql_query(raw) IN
         /\ result.tag = "raise"
         /\ result.val = "Throttled"
         /\ last_signal' = signal_of(raw)
    /\ retry_count' = retry_count + 1
    /\ wait_time' = backoff_wait(retry_count')
    /\ f_pc' = "attempt"
    /\ FetchFrame
    /\ UNCHANGED <<store_orders, seen_order_names, cursor, page_count, batch_size,
                   consecutive_small_batches, success, inflight, f_result,
                   stop_reason, srv_end_cursor, pages_names, srv_has_next,
                   srv_pages, skipped_total, served_small_run, srv_profile>>

\* variant: the handler lets the exception through to the caller
PageOtherExceptionRaises ==
    /\ f_pc = "waiting"
    /\ \E raw \in Outcomes(srv_profile) :
         LET result == execute_graphql_query(raw) IN
         /\ result.tag = "raise"
         /\ result.val # "Throttled"
         /\ last_signal' = signal_of(raw)
    /\ retry_count' = retry_count + 1
    /\ f_pc' = "done"
    /\ f_result' = [kind |-> "raised", orders |-> <<>>]
    /\ stop_reason' = "exception"
    /\ FetchFrame
    /\ UNCHANGED <<store_orders, seen_order_names, cursor, page_count, batch_size,
                   consecutive_small_batches, success, inflight, wait_time,
                   srv_end_cursor, pages_names, srv_has_next, srv_pages,
                   skipped_total, served_small_run, srv_profile>>

\* lines 442-446, 453-455: any other exception
PageOtherException ==
    /\ f_pc = "waiting"
    /\ \E raw \in Outcomes(srv_profile) :
         LET result == execute_graphql_query(raw) IN
         /\ result.tag = "raise"
         /\ result.val # "Throttled"
         /\ last_signal' = signal_of(raw)
    /\ retry_count' = retry_count + 1
    /\ return_orders(store_orders, "exception")
    /\ FetchFrame
    /\ UNCHANGED <<store_orders, seen_order_names, cursor, page_count, batch_size,
                   consecutive_small_batches, success, inflight, wait_time,
                   srv_end_cursor, pages_names, srv_has_next, srv_pages,
                   skipped_total, served_small_run, srv_profile>>

\* lines 456-458: the inner loop ended without a processed page
RetriesExhausted ==
    /\ f_pc = "attempt"
    /\ ~(retry_count < max_retries /\ ~success)
    /\ ~success
    /\ return_orders(store_orders, "retries_exhausted")
    /\ FetchFrame
    /\ UNCHANGED <<store_orders, seen_order_names, cursor, page_count, batch_size,
                   consecutive_small_batches, retry_count, success, inflight,
                   wait_time, srv_end_cursor, pages_names, srv_has_next,
                   srv_pages, last_signal, skipped_total, served_small_run, srv_profile>>

\* lines 460-462 and 363-366: wait, then start the next page
NextPage ==
    /\ f_pc = "attempt"
    /\ ~(retry_count < max_retries /\ ~success)
    /\ success
    /\ wait_time' = PageDelay
    /\ retry_count' = 0
    /\ success' = FALSE
    /\ FetchFrame
    /\ UNCHANGED <<f_pc, store_orders, seen_order_names, cursor, page_count,
                   batch_size, consecutive_small_batches, inflight, f_result,
                   stop_reason, srv_end_cursor, pages_names, srv_has_next,
                   srv_pages, last_signal, skipped_total, served_small_run, srv_profile>>

FetchNext ==
    \/ SendPageRequest
    \/ PageRequestFailed
    \/ PageEmpty
    \/ PageProcessed
    \/ PageThrottledException
    \/ PageOtherException
    \/ RetriesExhausted
    \/ NextPage

FetchIdle == FetchInit /\ srv_profile = "steady"

(***************************************************************************)
(* Properties of fetch_orders_from_store.                                  *)
(***************************************************************************)
NamesOf(seq) == {seq[i] : i \in 1..Len(seq)}

\* the return statements taken after a failed request, an exception or an
\* exhausted retry budget
FailureStops == {"request_failed", "exception", "retries_exhausted"}

\* C2: the list kept (and the list returned) holds every order name of the
\* processed pages exactly once: a name already seen is dropped, no unseen
\* name is dropped, and dropping a duplicate is no error.
C2_EveryNameExactlyOnce ==
    /\ NamesOf(store_orders) = pages_names
    /\ Len(store_orders) = Cardinality(pages_names)
    /\ seen_order_names = pages_names
    /\ f_result.kind # "raised"
    /\ f_result.kind = "returned" => f_result.orders = store_orders

\* C2 witness: three pages were processed, the third repeated 35 records
\* that were skipped, and the run returned 190 records
C2_Witness ==
    /\ f_pc = "done"
    /\ stop_reason = "last_page"
    /\ page_count = 3
    /\ skipped_total = 35
    /\ Len(f_result.orders) = 190

\* C5: the requested page size stays between the floor 25 and the initial
\* 75 and never increases.
C5_BatchSizeFloor ==
    /\ [](batch_size >= MinBatchSize /\ batch_size <= InitialBatchSize)
    /\ [][batch_size' <= batch_size]_vars

\* C5 witness: the page size is at the floor and one more run of three
\* small pages has ended there
C5_Witness ==
    /\ batch_size = MinBatchSize
    /\ consecutive_small_batches = 0
    /\ srv_pages >= 18

\* C6: a page request that ended in a rate-limit signal is followed by a
\* wait of min(20 x attempt, 120) seconds and, while fewer than 3 attempts
\* were made, by another request of the same page (same cursor, same page
\* size); the extraction is not ended by it.
C6_RateLimitRetried ==
    last_signal = "rate_limit" =>
        /\ retry_count >= 1
        /\ wait_time = backoff_wait(retry_count)
        /\ retry_count < max_retries => f_pc \in {"attempt", "waiting"}
        /\ f_pc = "attempt" =>
              /\ cursor = inflight.cursor
              /\ batch_size = inflight.first

\* C7: the call always returns and never raises; after a failed request,
\* another exception or an exhausted retry budget it returns the records of
\* the pages processed before, and once it has returned no request is sent.
C7_FailureReturnsAccumulated ==
    /\ [](f_result.kind # "raised")
    /\ [](stop_reason \in FailureStops =>
            /\ f_pc = "done"
            /\ f_result.kind = "returned"
            /\ f_result.orders = store_orders
            /\ NamesOf(f_result.orders) = pages_names
            /\ Len(f_result.orders) = Cardinality(pages_names))
    /\ [][f_pc = "done" => (page_count' = page_count /\ inflight' = inflight)]_vars

\* C7 witness: the second page request failed with an escaping exception
\* and the records of the first page were returned
C7_Witness ==
    /\ f_pc = "done"
    /\ stop_reason = "exception"
    /\ srv_pages = 1
    /\ page_count = 2
    /\ Len(f_result.orders) = 75

\* the terminal status the returned value carries to the caller
terminal_status(result) ==
    IF "status" \in DOMAIN result THEN result.status ELSE "none"

\* C8: an extraction stopped by an error or an exhausted retry budget
\* returns the terminal status 'partial'; an extraction that reached the
\* last page returns another status.
C8_PartialStatusReturned ==
    f_pc = "done" =>
        /\ stop_reason \in FailureStops => terminal_status(f_result) = "partial"
        /\ stop_reason = "last_page" => terminal_status(f_result) # "partial"

\* C9: the loop ends, with no further request, on hasNextPage=false, on
\* hasNextPage=true without an end cursor and on an exhausted retry budget;
\* a request sent after a processed page carries that page's end cursor.
C9_StopsAndCursorChain ==
    /\ [](srv_pages > 0 /\ (~srv_has_next \/ srv_end_cursor = None) => f_pc = "done")
    /\ [](retry_count >= max_retries => f_pc # "waiting")
    /\ [](f_pc = "waiting" =>
            IF srv_pages = 0 THEN inflight.cursor = None
            ELSE inflight.cursor = srv_end_cursor /\ inflight.cursor # None)
    /\ [][f_pc = "done" => (page_count' = page_count /\ inflight' = inflight)]_vars

\* C9 witness: the third page is requested with the end cursor of the second
C9_Witness ==
    /\ f_pc = "waiting"
    /\ srv_pages = 2
    /\ inflight.cursor = srv_end_cursor
    /\ inflight.cursor # None

\* C26: the page size goes down only on the third of 3 consecutive pages on
\* which the server returned fewer than half of the requested records.
C26_ShrinkOnlyAfterThreeSmallPages ==
    [][batch_size' < batch_size => served_small_run' >= SmallBatchRun]_vars

(***************************************************************************)
(* get_date_ranges_chunked (lines 112-134) and get_date_range (89-110).    *)
(* A datetime is a number of clock readings since 2019-01-01 00:00; a date *)
(* string '%Y-%m-%d' is a number of days since 2019-01-01.                 *)
(***************************************************************************)
DaysPerMonth == 30
RecentDays == 60
\* datetime(2019, 1, 1)
start_date == 0

\* the mode strings: the two the program knows and any other string
Modes == {"all_time", "recent_2months", "other"}

timedelta(days) == days * TicksPerDay
\* dt.strftime('%Y-%m-%d'): the time of day is dropped
strftime(dt) == dt \div TicksPerDay

\* variant: the next window starts where the previous one ended
next_start_same(current_end) == current_end

\* current_start = current_end + timedelta(days=1) (line 131)
next_start(current_end) == current_end + timedelta(1)

\* min(current_start + timedelta(days=chunk_months * 30), end_date)
window_end(start, months, end_date) ==
    Min(start + timedelta(months * DaysPerMonth), end_date)

\* get_date_range(mode): a pair of date strings, or ValueError
get_date_range(mode, today) ==
    IF mode = "all_time"
    THEN [kind |-> "returned",
          ranges |-> << <<strftime(start_date), strftime(today)>> >>]
    ELSE IF mode = "recent_2months"
    THEN [kind |-> "returned",
          ranges |-> << <<strftime(today - timedelta(RecentDays)), strftime(today)>> >>]
    ELSE [kind |-> "raised", ranges |-> <<>>]

\* the days a window's query selects:
\* created_at:>={start_date} AND created_at:<={end_date} (line 173)
covered(window) == window[1] .. window[2]

ChunkInit ==
    /\ c_pc = "call"
    /\ c_mode \in Modes
    /\ chunk_months \in 1..MaxChunkMonths
    /\ c_now \in timedelta(1) .. (timedelta(MaxToday + 1) - 1)
    /\ current_start = 0
    /\ date_ranges = <<>>
    /\ c_result = [kind |-> "running", ranges |-> <<>>]

\* lines 114-115: any mode but all_time is handed to get_date_range
ChunkOtherMode ==
    /\ c_pc = "call"
    /\ c_mode # "all_time"
    /\ c_result' = get_date_range(c_mode, c_now)
    /\ c_pc' = "done"
    /\ ChunkFrame
    /\ UNCHANGED <<c_mode, chunk_months, c_now, current_start, date_ranges>>

\* lines 117-121: the loop is entered
ChunkBegin ==
    /\ c_pc = "call"
    /\ c_mode = "all_time"
    /\ current_start' = start_date
    /\ date_ranges' = <<>>
    /\ c_pc' = "loop"
    /\ ChunkFrame
    /\ UNCHANGED <<c_mode, chunk_months, c_now, c_result>>

\* lines 122-131: one pass of the loop appends a window
ChunkAppend ==
    /\ c_pc = "loop"
    /\ current_start < c_now
    /\ LET current_end == window_end(current_start, chunk_months, c_now)
       IN  /\ date_ranges' = Append(date_ranges,
                                    <<strftime(current_start), strftime(current_end)>>)
           /\ current_start' = next_start(current_end)
    /\ ChunkFrame
    /\ UNCHANGED <<c_pc, c_mode, chunk_months, c_now, c_result>>

\* lines 122, 133: the loop condition fails and the list is returned
ChunkReturn ==
    /\ c_pc = "loop"
    /\ ~(current_start < c_now)
    /\ c_result' = [kind |-> "returned", ranges |-> date_ranges]
    /\ c_pc' = "done"
    /\ ChunkFrame
    /\ UNCHANGED <<c_mode, chunk_months, c_now, current_start, date_ranges>>

ChunkNext ==
    \/ ChunkOtherMode
    \/ ChunkBegin
    \/ ChunkAppend
    \/ ChunkReturn


(***************************************************************************)
(* Properties of get_date_ranges_chunked.                                  *)
(***************************************************************************)
\* the windows of a finished all_time call are closed runs of days that
\* follow each other without gap or overlap
ClosedContiguous(ranges) ==
    /\ Len(ranges) >= 1
    /\ ranges[1][1] = strftime(start_date)
    /\ \A k \in 1..Len(ranges) :
          /\ ranges[k][1] <= ranges[k][2]
          /\ ranges[k][2] - ranges[k][1] <= chunk_months * DaysPerMonth
          /\ (k > 1 => ranges[k][1] = ranges[k - 1][2] + 1)
    /\ \A d \in strftime(start_date) .. ranges[Len(ranges)][2] :
          Cardinality({k \in 1..Len(ranges) : d \in covered(ranges[k])}) = 1

\* the last window ends today, or yesterday when the call runs exactly at the
\* midnight that follows the end of a full window
EndsAtRangeEnd(ranges) ==
    LET last == ranges[Len(ranges)]
    IN  \/ last[2] = strftime(c_now)
        \/ /\ last[2] = strftime(c_now) - 1
           /\ c_now = timedelta(strftime(c_now))
           /\ last[2] - last[1] = chunk_months * DaysPerMonth

\* C10 (as the code has it): get_date_ranges_chunked('all_time', m), m >= 1,
\* terminates and returns windows in ascending order that are closed date
\* intervals [start, end]: the first start is 2019-01-01, each window's start
\* is the day after the previous window's end, end - start is at most m x 30
\* days, every day from 2019-01-01 to the last end is selected by exactly one
\* window's query, and the last end is today's date (the day before when the
\* call runs exactly at the midnight after a full window's end).  For mode
\* 'recent_2months' it returns exactly one window (today - 60 days, today);
\* for any other mode it raises ValueError.
C10_ClosedContiguousWindows ==
    /\ <>(c_pc = "done")
    /\ [](c_pc = "done" =>
            /\ (c_mode = "all_time" =>
                  /\ c_result.kind = "returned"
                  /\ ClosedContiguous(c_result.ranges)
                  /\ EndsAtRangeEnd(c_result.ranges))
            /\ (c_mode = "recent_2months" =>
                  /\ c_result.kind = "returned"
                  /\ c_result.ranges =
                       << <<strftime(c_now) - RecentDays, strftime(c_now)>> >>)
            /\ (c_mode = "other" => c_result.kind = "raised"))

C10_Witness ==
    /\ c_pc = "done"
    /\ c_mode = "all_time"
    /\ chunk_months = 1
    /\ c_result.kind = "returned"
    /\ Len(c_result.ranges) = 4
    /\ c_result.ranges[2] = <<31, 61>>

\* C10 (as stated): the windows are half-open intervals [start, end), each
\* window's start equals the previous window's end, the first start is the
\* range start, the last end is the range end, each window spans at most
\* m x 30 days, and any other mode returns exactly one window.
C10_HalfOpenContiguous ==
    c_pc = "done" =>
        /\ c_result.kind = "returned"
        /\ Len(c_result.ranges) >= 1
        /\ (c_mode = "all_time" =>
              /\ c_result.ranges[1][1] = strftime(start_date)
              /\ c_result.ranges[Len(c_result.ranges)][2] = strftime(c_now)
              /\ \A k \in 1..Len(c_result.ranges) :
                    /\ c_result.ranges[k][2] - c_result.ranges[k][1]
                          <= chunk_months * DaysPerMonth
                    /\ (k > 1 => c_result.ranges[k][1] = c_result.ranges[k - 1][2]))
        /\ (c_mode # "all_time" => Len(c_result.ranges) = 1)


(***************************************************************************)
(* fetch_all_orders_chunked (lines 648-692) with fetch_all_orders_parallel *)
(* (lines 613-646).  An order is [name, store, window]: its name, the      *)
(* store it was fetched from (_store_key) and, for the properties only,    *)
(* the window whose query returned this occurrence.                        *)
(***************************************************************************)
PeriodDelay == 60
\* self.active_stores: two configured stores
Stores == {"artgraph", "photopri"}
BackfillNames == 1..MaxBackfillName

\* what fetch_orders_from_store returns for one store and one window: a list
\* without repeated names and without empty names
StoreResults ==
    UNION {{q \in [1..k -> BackfillNames] :
              \A i, j \in 1..k : i # j => q[i] # q[j]} : k \in 0..MaxBackfillName}

\* variant: the global set is not consulted
is_global_duplicate_never(order_name, seen) == FALSE

\* `order_name not in global_seen_order_names` (line 665), negated
is_global_duplicate(order_name, seen) == order_name \in seen

\* the global set when the loop of lines 663-669 reaches order i of the period
global_seen_at(period, i, seen) ==
    seen \cup {period[j].name : j \in {k \in 1..(i - 1) : period[k].name # NoName}}

\* order i is appended to unique_orders (lines 664-667)
order_unique(period, i, seen) ==
    /\ period[i].name # NoName
    /\ ~is_global_duplicate(period[i].name, global_seen_at(period, i, seen))

\* the loop of lines 661-669 over the orders of one window
global_dedup(period, seen) ==
    LET tagged == [i \in 1..Len(period) |-> <<period[i], order_unique(period, i, seen)>>]
        kept == SelectSeq(tagged, LAMBDA p : p[2])
    IN  [unique_orders |-> [k \in 1..Len(kept) |-> kept[k][1]],
         seen |-> seen \cup {kept[k][1].name : k \in 1..Len(kept)},
         period_duplicates |-> Len(period) - Len(kept)]

BackfillInit ==
    /\ b_pc = "fetching"
    /\ b_windows \in 1..MaxWindows
    /\ b_i = 1
    /\ b_pending = Stores
    /\ period_orders = <<>>
    /\ global_seen_order_names = {}
    /\ all_orders = <<>>
    /\ b_sleep = 0
    /\ returned_in = [n \in BackfillNames |-> {}]
    /\ b_result = [kind |-> "running", orders |-> <<>>]

BackfillIdle ==
    /\ b_pc = "fetching"
    /\ b_windows = 1
    /\ b_i = 1
    /\ b_pending = Stores
    /\ period_orders = <<>>
    /\ global_seen_order_names = {}
    /\ all_orders = <<>>
    /\ b_sleep = 0
    /\ returned_in = [n \in BackfillNames |-> {}]
    /\ b_result = [kind |-> "running", orders |-> <<>>]

\* lines 623-629: the fetch of one store completes and its orders are added
\* to the window's list under the lock, in order of completion
StoreFetched ==
    /\ b_pc = "fetching"
    /\ b_i <= b_windows
    /\ \E store_key \in b_pending, names \in StoreResults :
          LET store_orders_of ==
                  [k \in 1..Len(names) |->
                      [name |-> names[k], store |-> store_key, window |-> b_i]]
          IN  /\ period_orders' = period_orders \o store_orders_of
              /\ b_pending' = b_pending \ {store_key}
              /\ returned_in' =
                    [n \in BackfillNames |->
                        IF \E k \in 1..Len(names) : names[k] = n
                        THEN returned_in[n] \cup {b_i}
                        ELSE returned_in[n]]
    /\ BackfillFrame
    /\ UNCHANGED <<b_pc, b_windows, b_i, global_seen_order_names, all_orders,
                   b_sleep, b_result>>

\* lines 659-684: all stores are done; the window's orders pass the global
\* check, the unique ones are appended, and the loop waits before the next
\* window
PeriodMerged ==
    /\ b_pc = "fetching"
    /\ b_i <= b_windows
    /\ b_pending = {}
    /\ LET done == global_dedup(period_orders, global_seen_order_names)
       IN  /\ all_orders' = all_orders \o done.unique_orders
           /\ global_seen_order_names' = done.seen
    /\ b_sleep' = IF b_i < b_windows THEN PeriodDelay ELSE b_sleep
    /\ b_i' = b_i + 1
    /\ b_pending' = Stores
    /\ period_orders' = <<>>
    /\ BackfillFrame
    /\ UNCHANGED <<b_pc, b_windows, returned_in, b_result>>

\* lines 686-688: the window's fetch raised before any store was fetched; the
\* loop goes on with the next window
PeriodFailed ==
    /\ b_pc = "fetching"
    /\ b_i <= b_windows
    /\ b_pending = Stores
    /\ b_i' = b_i + 1
    /\ BackfillFrame
    /\ UNCHANGED <<b_pc, b_windows, b_pending, period_orders,
                   global_seen_order_names, all_orders, b_sleep, returned_in,
                   b_result>>

\* lines 690-692: the loop is over
BackfillReturn ==
    /\ b_pc = "fetching"
    /\ b_i > b_windows
    /\ b_result' = [kind |-> "returned", orders |-> all_orders]
    /\ b_pc' = "done"
    /\ BackfillFrame
    /\ UNCHANGED <<b_windows, b_i, b_pending, period_orders,
                   global_seen_order_names, all_orders, b_sleep, returned_in>>

BackfillNext ==
    \/ StoreFetched
    \/ PeriodMerged
    \/ PeriodFailed
    \/ BackfillReturn

(***************************************************************************)
(* Properties of fetch_all_orders_chunked.                                 *)
(***************************************************************************)
\* the windows whose loop pass is over
merged(w) == w < b_i

EarliestWindow(ws) == CHOOSE w \in ws : \A v \in ws : w <= v

\* C4: one set of names spans all windows of a backfill: a name returned by
\* the queries of several windows is kept once in the output, the kept
\* occurrence is the one of the earliest window that returned it, and the
\* orders of an earlier window precede the orders of a later window.
C4_GlobalDedupFirstWindowWins ==
    /\ \A i, j \in 1..Len(all_orders) :
          i < j => /\ all_orders[i].name # all_orders[j].name
                   /\ all_orders[i].window <= all_orders[j].window
    /\ \A n \in BackfillNames :
          \A w \in returned_in[n] :
              merged(w) =>
                  \E k \in 1..Len(all_orders) :
                      /\ all_orders[k].name = n
                      /\ all_orders[k].window = EarliestWindow(returned_in[n])
    /\ (b_pc = "done" => b_result = [kind |-> "returned", orders |-> all_orders])

C4_Witness ==
    /\ b_pc = "done"
    /\ Len(b_result.orders) = 2
    /\ b_result.orders[1].window = 1
    /\ b_result.orders[2].window = 2
    /\ returned_in[b_result.orders[1].name] = {1, 2}
    /\ returned_in[b_result.orders[2].name] = {2}

\* C25: whenever fetch_all_orders_chunked merges the orders of a window,
\* every order the stores returned for the window is in the output
\* afterwards under its own name and store: an order is never left out
\* because an order of another store has the same name.
C25_SameNameOtherStoreKept ==
    [][(b_i' = b_i + 1) =>
          \A k \in 1..Len(period_orders) :
              \E j \in 1..Len(all_orders') :
                  /\ all_orders'[j].name = period_orders[k].name
                  /\ all_orders'[j].store = period_orders[k].store]_vars

(***************************************************************************)
(* convert_to_csv_data (lines 797-1075).  An order is                      *)
(* [name, lineItems, subtotalPriceSet]: its name, the number of its line   *)
(* items, and whether the value of 'subtotalPriceSet' is a money bag or    *)
(* null.  A row is [Name, Lineitem]: the Name cell and the line item the   *)
(* line item cells were taken from (0: none, the cells hold the defaults). *)
(***************************************************************************)
headers == [Name |-> "Name", Lineitem |-> "Lineitem name"]

ConvertOrders ==
    [name : 1..MaxConvertName, lineItems : 0..MaxLineItems,
     subtotalPriceSet : {"money", "null"}]

OrderLists ==
    UNION {[1..k -> ConvertOrders] : k \in 0..MaxOrders}

\* order.get('subtotalPriceSet', {}).get('shopMoney') (line 864): the key is
\* present with the value None, and None has no attribute 'get'
conversion_raises(order) == order.subtotalPriceSet = "null"

\* lines 990-1045: the loop over the line items assigns `row` once per item;
\* the append of line 1045 follows the loop, so the row of the last item stays
row_with_items(order) == [Name |-> order.name, Lineitem |-> order.lineItems]

\* lines 1046-1066: no line item
row_without_items(order) == [Name |-> order.name, Lineitem |-> 0]

ConvertInit ==
    /\ v_pc = "start"
    /\ v_orders \in OrderLists
    /\ v_i = 0
    /\ csv_data = <<>>
    /\ v_errors = 0
    /\ v_result = [kind |-> "running", rows |-> <<>>]

ConvertIdle ==
    /\ v_pc = "start"
    /\ v_orders = <<>>
    /\ v_i = 0
    /\ csv_data = <<>>
    /\ v_errors = 0
    /\ v_result = [kind |-> "running", rows |-> <<>>]

\* lines 799-820: the header row is appended
ConvertBegin ==
    /\ v_pc = "start"
    /\ csv_data' = <<headers>>
    /\ v_pc' = "loop"
    /\ ConvertFrame
    /\ UNCHANGED <<v_orders, v_i, v_errors, v_result>>

\* lines 823-1045: an order with line items becomes one row
ConvertOrderWithItems ==
    /\ v_pc = "loop"
    /\ v_i < Len(v_orders)
    /\ LET order == v_orders[v_i + 1]
       IN  /\ order.name # NoName
           /\ ~conversion_raises(order)
           /\ order.lineItems > 0
           /\ csv_data' = Append(csv_data, row_with_items(order))
    /\ v_i' = v_i + 1
    /\ ConvertFrame
    /\ UNCHANGED <<v_pc, v_orders, v_errors, v_result>>

\* lines 823-990, 1046-1066: an order without line items becomes one row
ConvertOrderWithoutItems ==
    /\ v_pc = "loop"
    /\ v_i < Len(v_orders)
    /\ LET order == v_orders[v_i + 1]
       IN  /\ order.name # NoName
           /\ ~conversion_raises(order)
           /\ order.lineItems = 0
           /\ csv_data' = Append(csv_data, row_without_items(order))
    /\ v_i' = v_i + 1
    /\ ConvertFrame
    /\ UNCHANGED <<v_pc, v_orders, v_errors, v_result>>

\* lines 1068-1073: the conversion of the order raised; the order is logged
\* and left out
ConvertOrderRaises ==
    /\ v_pc = "loop"
    /\ v_i < Len(v_orders)
    /\ LET order == v_orders[v_i + 1]
       IN  /\ order.name # NoName
           /\ conversion_raises(order)
    /\ v_errors' = v_errors + 1
    /\ v_i' = v_i + 1
    /\ ConvertFrame
    /\ UNCHANGED <<v_pc, v_orders, csv_data, v_result>>

\* line 1075: return csv_data
ConvertReturn ==
    /\ v_pc = "loop"
    /\ v_i = Len(v_orders)
    /\ v_result' = [kind |-> "returned", rows |-> csv_data]
    /\ v_pc' = "done"
    /\ ConvertFrame
    /\ UNCHANGED <<v_orders, v_i, csv_data, v_errors>>

ConvertNext ==
    \/ ConvertBegin
    \/ ConvertOrderWithItems
    \/ ConvertOrderWithoutItems
    \/ ConvertOrderRaises
    \/ ConvertReturn

(***************************************************************************)
(* Properties of convert_to_csv_data.                                      *)
(***************************************************************************)
DistinctNames(orders) ==
    \A i, j \in 1..Len(orders) : i # j => orders[i].name # orders[j].name

\* C3: every order handed to convert_to_csv_data becomes exactly one data row
\* of its output: the number of data rows equals the number of orders, row k
\* carries the name of order k, and the rows carry distinct names when the
\* orders do.
C3_OneRowPerRecord ==
    v_pc = "done" =>
        /\ v_result.kind = "returned"
        /\ Len(v_result.rows) = Len(v_orders) + 1
        /\ v_result.rows[1] = headers
        /\ \A k \in 1..Len(v_orders) : v_result.rows[k + 1].Name = v_orders[k].name
        /\ (DistinctNames(v_orders) =>
               \A i, j \in 2..Len(v_result.rows) :
                   i # j => v_result.rows[i].Name # v_result.rows[j].Name)

(***************************************************************************)
(* upload_with_duplicate_handling (spreadsheet_uploader.py, lines          *)
(* 1526-1658) with get_existing_data, find_duplicate_rows,                 *)
(* create_new_sheet, upload_data_to_sheet, update_duplicate_rows and       *)
(* append_new_rows.  A row is [Name, body]: its Name cell and the rest of  *)
(* its cells.  The rows of the sheet before the run have body 0, new row i *)
(* of the data has body i.                                                 *)
(***************************************************************************)
NewSheetRows == 1000
UpdateBatchSize == 200
\* an empty cell ('')
EmptyCell == 0
\* the cell 'Name' of the header row
HeaderName == 0 - 1
header_row == [Name |-> HeaderName, body |-> 0]
blank_row == [Name |-> EmptyCell, body |-> 0]

Keys == 1..MaxKey

\* the sheets a run can meet: no row at all, or the header row and data rows
Tables ==
    {<<>>} \cup
    UNION {{<<header_row>> \o [i \in 1..n |-> [Name |-> q[i], body |-> 0]] :
              q \in [1..n -> Keys]} : n \in 0..MaxTableRows}

\* the data argument: the header row and the new rows; a Name cell may be empty
NewData ==
    UNION {{<<header_row>> \o [i \in 1..n |-> [Name |-> q[i], body |-> i]] :
              q \in [1..n -> {EmptyCell} \cup Keys]} : n \in 0..MaxNewRows}

SetMax(S) == CHOOSE x \in S : \A y \in S : y <= x

\* lines 1281-1288: the header row holds a column 'Name'
has_name_column(header) == header.Name = HeaderName

\* lines 1305-1309: existing_ids[key] = i + 2; a later row with the same key
\* replaces the entry of an earlier one
existing_ids(existing) ==
    LET keys == {existing[r].Name : r \in 2..Len(existing)} \ {EmptyCell}
    IN  [k \in keys |-> SetMax({r \in 2..Len(existing) : existing[r].Name = k})]

\* the keys of `duplicates` in the order they were first inserted
duplicate_order(new_rows, ids) ==
    LET tagged == [i \in 1..Len(new_rows) |->
                     <<new_rows[i].Name,
                       /\ new_rows[i].Name \in DOMAIN ids
                       /\ \A j \in 1..(i - 1) : new_rows[j].Name # new_rows[i].Name>>]
        firsts == SelectSeq(tagged, LAMBDA p : p[2])
    IN  [k \in 1..Len(firsts) |-> firsts[k][1]]

\* lines 1267-1340
find_duplicate_rows(existing, data) ==
    IF Len(existing) < 2
    THEN [duplicates |-> <<>>, order |-> <<>>, next_empty_row |-> 2,
          has_filtered |-> FALSE, filtered_new_rows |-> <<>>]
    ELSE IF ~has_name_column(existing[1])
    THEN [duplicates |-> <<>>, order |-> <<>>,
          next_empty_row |-> Len(existing) + 1,
          has_filtered |-> FALSE, filtered_new_rows |-> <<>>]
    ELSE LET new_rows == Tail(data)
             ids == existing_ids(existing)
             dup_keys == {new_rows[i].Name : i \in 1..Len(new_rows)} \cap DOMAIN ids
         IN  [duplicates |->
                 [k \in dup_keys |->
                     [existing_row |-> ids[k],
                      new_data |-> new_rows[SetMax({i \in 1..Len(new_rows) :
                                                      new_rows[i].Name = k})]]],
              order |-> duplicate_order(new_rows, ids),
              next_empty_row |-> Len(existing) + 1,
              has_filtered |-> TRUE,
              filtered_new_rows |->
                 SelectSeq(new_rows, LAMBDA row : \/ row.Name = EmptyCell
                                                  \/ row.Name \notin DOMAIN ids)]

\* lines 1580-1624: the rows to append
new_rows_of(info, data, overwrite) ==
    IF info.has_filtered
    THEN info.filtered_new_rows
    ELSE SelectSeq(Tail(data), LAMBDA row : \/ overwrite
                                            \/ row.Name \notin DOMAIN info.duplicates)

\* values().update of `rows` at the rows start, start + 1, ...
write_rows(t, start, rows) ==
    [r \in 1..Max(Len(t), start + Len(rows) - 1) |->
        IF r >= start /\ r < start + Len(rows) THEN rows[r - start + 1]
        ELSE IF r <= Len(t) THEN t[r]
        ELSE blank_row]

\* one batchUpdate of updateCells requests for the keys `batch`
apply_updates(t, batch, dups) ==
    [r \in 1..Len(t) |->
        IF \E b \in 1..Len(batch) : dups[batch[b]].existing_row = r
        THEN dups[batch[CHOOSE b \in 1..Len(batch) :
                           dups[batch[b]].existing_row = r]].new_data
        ELSE t[r]]

NoDuplicateInfo ==
    [duplicates |-> <<>>, order |-> <<>>, next_empty_row |-> 2,
     has_filtered |-> FALSE, filtered_new_rows |-> <<>>]

UploadInit ==
    /\ sheet_exists \in BOOLEAN
    /\ table \in (IF sheet_exists THEN Tables ELSE {<<>>})
    /\ grid_rows \in (IF sheet_exists THEN {Max(1, Len(table)), NewSheetRows} ELSE {0})
    /\ u_pc = "read"
    /\ u_data \in NewData
    /\ overwrite_mode \in BOOLEAN
    /\ existing_data = <<>>
    /\ duplicate_info = NoDuplicateInfo
    /\ next_empty_row = 0
    /\ u_requests = <<>>
    /\ u_sent = 0
    /\ u_failed_batches = 0
    /\ u_appended = 0
    /\ u_result = "running"
    /\ table_before = table
    /\ u_id_failed = FALSE
    /\ u_updated = 0
    /\ u_formatted = {}

UploadIdle ==
    /\ sheet_exists = FALSE
    /\ table = <<>>
    /\ grid_rows = 0
    /\ u_pc = "read"
    /\ u_data = <<header_row>>
    /\ overwrite_mode = FALSE
    /\ existing_data = <<>>
    /\ duplicate_info = NoDuplicateInfo
    /\ next_empty_row = 0
    /\ u_requests = <<>>
    /\ u_sent = 0
    /\ u_failed_batches = 0
    /\ u_appended = 0
    /\ u_result = "running"
    /\ table_before = <<>>
    /\ u_id_failed = FALSE
    /\ u_updated = 0
    /\ u_formatted = {}

\* `return True` / `return False`
upload_return(value) ==
    /\ u_pc' = "done"
    /\ u_result' = value

\* lines 1539-1551 and get_existing_data (856-914): the rows of the sheet, or
\* the empty list when the sheet is missing or the read fails
GetExistingData ==
    /\ u_pc = "read"
    /\ \E read_ok \in BOOLEAN :
          existing_data' = IF read_ok /\ sheet_exists THEN table ELSE <<>>
    /\ u_pc' = "find"
    /\ UploadFrame
    /\ UNCHANGED <<sheet_exists, table, grid_rows, u_data, overwrite_mode,
                   duplicate_info, next_empty_row, u_requests, u_sent,
                   u_failed_batches, u_appended, u_result, table_before>>
    /\ UNCHANGED <<u_id_failed, u_updated, u_formatted>>

\* lines 1553-1558
FindDuplicateRows ==
    /\ u_pc = "find"
    /\ duplicate_info' = find_duplicate_rows(existing_data, u_data)
    /\ next_empty_row' = duplicate_info'.next_empty_row
    /\ u_pc' = IF existing_data = <<>> THEN "create" ELSE "update"
    /\ UploadFrame
    /\ UNCHANGED <<sheet_exists, table, grid_rows, u_data, overwrite_mode,
                   existing_data, u_requests, u_sent, u_failed_batches,
                   u_appended, u_result, table_before>>
    /\ UNCHANGED <<u_id_failed, u_updated, u_formatted>>

\* lines 1561-1563 and create_new_sheet (126-158): the sheet is added, or
\* the request is refused because the sheet already exists
CreateNewSheet ==
    /\ u_pc = "create"
    /\ IF sheet_exists
       THEN UNCHANGED <<sheet_exists, table, grid_rows>>
       ELSE /\ sheet_exists' = TRUE
            /\ table' = <<>>
            /\ grid_rows' = NewSheetRows
    /\ u_pc' = "header"
    /\ UploadFrame
    /\ UNCHANGED <<u_data, overwrite_mode, existing_data, duplicate_info,
                   next_empty_row, u_requests, u_sent, u_failed_batches,
                   u_appended, u_result, table_before>>
    /\ UNCHANGED <<u_id_failed, u_updated, u_formatted>>

\* lines 1562-1563: create_new_sheet returned False
CreateNewSheetFails ==
    /\ u_pc = "create"
    /\ upload_return("False")
    /\ UploadFrame
    /\ UNCHANGED <<sheet_exists, table, grid_rows, u_data, overwrite_mode,
                   existing_data, duplicate_info, next_empty_row, u_requests,
                   u_sent, u_failed_batches, u_appended, table_before>>
    /\ UNCHANGED <<u_id_failed, u_updated, u_formatted>>

\* lines 1564-1567 and upload_data_to_sheet (175-219): the header row is
\* written to row 1
UploadHeader ==
    /\ u_pc = "header"
    /\ table' = write_rows(table, 1, <<u_data[1]>>)
    /\ next_empty_row' = 2
    /\ u_pc' = "update"
    /\ UploadFrame
    /\ UNCHANGED <<sheet_exists, grid_rows, u_data, overwrite_mode,
                   existing_data, duplicate_info, u_requests, u_sent,
                   u_failed_batches, u_appended, u_result, table_before>>
    /\ UNCHANGED <<u_id_failed, u_updated, u_formatted>>

\* lines 1565-1566: upload_data_to_sheet returned False
UploadHeaderFails ==
    /\ u_pc = "header"
    /\ upload_return("False")
    /\ UploadFrame
    /\ UNCHANGED <<sheet_exists, table, grid_rows, u_data, overwrite_mode,
                   existing_data, duplicate_info, next_empty_row, u_requests,
                   u_sent, u_failed_batches, u_appended, table_before>>
    /\ UNCHANGED <<u_id_failed, u_updated, u_formatted>>

\* lines 1570-1572 and 1342-1383: the sheet id is found and the requests are
\* prepared
PrepareUpdates ==
    /\ u_pc = "update"
    /\ DOMAIN duplicate_info.duplicates # {}
    /\ overwrite_mode
    /\ u_requests' = duplicate_info.order
    /\ u_sent' = 0
    /\ u_pc' = "batch"
    /\ UploadFrame
    /\ UNCHANGED <<sheet_exists, table, grid_rows, u_data, overwrite_mode,
                   existing_data, duplicate_info, next_empty_row,
                   u_failed_batches, u_appended, u_result, table_before>>
    /\ UNCHANGED <<u_id_failed, u_updated, u_formatted>>

\* lines 1350-1355, 1572-1573: _get_sheet_id returned None
SheetIdNotFound ==
    /\ u_pc = "update"
    /\ DOMAIN duplicate_info.duplicates # {}
    /\ overwrite_mode
    /\ u_id_failed' = TRUE
    /\ upload_return("False")
    /\ UploadFrame
    /\ UNCHANGED <<sheet_exists, table, grid_rows, u_data, overwrite_mode,
                   existing_data, duplicate_info, next_empty_row, u_requests,
                   u_sent, u_failed_batches, u_appended, table_before>>
    /\ UNCHANGED <<u_updated, u_formatted>>

\* lines 1386-1411: one batch of at most 200 requests is sent; a batch that
\* raises is logged and the loop goes on
UpdateBatch ==
    /\ u_pc = "batch"
    /\ u_sent < Len(u_requests)
    /\ LET last == Min(u_sent + UpdateBatchSize, Len(u_requests))
           batch == SubSeq(u_requests, u_sent + 1, last)
       IN  /\ \E batch_ok \in BOOLEAN :
                 /\ table' = IF batch_ok
                             THEN apply_updates(table, batch, duplicate_info.duplicates)
                             ELSE table
                 /\ u_failed_batches' = IF batch_ok THEN u_failed_batches
                                        ELSE u_failed_batches + 1
                 /\ u_updated' = IF batch_ok THEN u_updated + Len(batch)
                                 ELSE u_updated
           /\ u_sent' = last
           /\ u_pc' = IF last < Len(u_requests) THEN "batch" ELSE "append"
    /\ UploadFrame
    /\ UNCHANGED <<sheet_exists, grid_rows, u_data, overwrite_mode,
                   existing_data, duplicate_info, next_empty_row, u_requests,
                   u_appended, u_result, table_before>>
    /\ UNCHANGED <<u_id_failed, u_formatted>>

\* lines 1576-1578: nothing to update, or append mode
SkipUpdates ==
    /\ u_pc = "update"
    /\ ~(DOMAIN duplicate_info.duplicates # {} /\ overwrite_mode)
    /\ u_pc' = "append"
    /\ UploadFrame
    /\ UNCHANGED <<sheet_exists, table, grid_rows, u_data, overwrite_mode,
                   existing_data, duplicate_info, next_empty_row, u_requests,
                   u_sent, u_failed_batches, u_appended, u_result, table_before>>
    /\ UNCHANGED <<u_id_failed, u_updated, u_formatted>>

\* lines 1626-1631 and append_new_rows (1483-1524): the sheet is grown when
\* needed and the new rows are written from next_empty_row on
AppendNewRows ==
    /\ u_pc = "append"
    /\ LET new_rows == new_rows_of(duplicate_info, u_data, overwrite_mode)
           required_rows == next_empty_row + Len(new_rows) - 1
       IN  /\ new_rows # <<>>
           /\ grid_rows' = Max(grid_rows, required_rows)
           /\ table' = write_rows(table, next_empty_row, new_rows)
           /\ u_appended' = Len(new_rows)
    /\ u_pc' = "format"
    /\ UploadFrame
    /\ UNCHANGED <<sheet_exists, u_data, overwrite_mode, existing_data,
                   duplicate_info, next_empty_row, u_requests, u_sent,
                   u_failed_batches, u_result, table_before>>
    /\ UNCHANGED <<u_id_failed, u_updated, u_formatted>>

\* lines 1629-1630: append_new_rows returned False: _ensure_sheet_has_rows
\* got no sheet id, or could not read or grow the sheet, or the write of the
\* rows was refused
AppendNewRowsFails ==
    /\ u_pc = "append"
    /\ LET new_rows == new_rows_of(duplicate_info, u_data, overwrite_mode)
           required_rows == next_empty_row + Len(new_rows) - 1
       IN  /\ new_rows # <<>>
           /\ \E id_found, grown \in BOOLEAN :
                 /\ u_id_failed' = (u_id_failed \/ ~id_found)
                 /\ grid_rows' = IF id_found /\ grown
                                 THEN Max(grid_rows, required_rows)
                                 ELSE grid_rows
    /\ upload_return("False")
    /\ UploadFrame
    /\ UNCHANGED <<sheet_exists, table, u_data, overwrite_mode, existing_data,
                   duplicate_info, next_empty_row, u_requests, u_sent,
                   u_failed_batches, u_appended, table_before>>
    /\ UNCHANGED <<u_updated, u_formatted>>

\* line 1628: no new row
SkipAppend ==
    /\ u_pc = "append"
    /\ new_rows_of(duplicate_info, u_data, overwrite_mode) = <<>>
    /\ u_pc' = "format"
    /\ UploadFrame
    /\ UNCHANGED <<sheet_exists, table, grid_rows, u_data, overwrite_mode,
                   existing_data, duplicate_info, next_empty_row, u_requests,
                   u_sent, u_failed_batches, u_appended, u_result, table_before>>
    /\ UNCHANGED <<u_id_failed, u_updated, u_formatted>>

\* _apply_formatting_to_range_fixed: the repeatCell ranges run from
\* startRowIndex = start_row - 1 up to endRowIndex = end_row (exclusive),
\* both counted from 0: the sheet rows start_row .. end_row
formatted_rows(start_row, end_row) == ((start_row - 1) + 1) .. ((end_row - 1) + 1)

\* lines 1633-1654: the rows from start_row = next_empty_row to end_row =
\* next_empty_row + len(new_rows) are formatted when there are new rows and
\* the sheet id is found (no cell value changes), and the run returns True
FinishUpload ==
    /\ u_pc = "format"
    /\ LET new_rows == new_rows_of(duplicate_info, u_data, overwrite_mode)
           start_row == next_empty_row
           end_row == next_empty_row + Len(new_rows)
       IN  IF new_rows # <<>>
           THEN \E id_found \in BOOLEAN :
                    /\ u_id_failed' = (u_id_failed \/ ~id_found)
                    /\ u_formatted' = IF id_found
                                      THEN formatted_rows(start_row, end_row)
                                      ELSE {}
           ELSE UNCHANGED <<u_id_failed, u_formatted>>
    /\ upload_return("True")
    /\ UploadFrame
    /\ UNCHANGED <<sheet_exists, table, grid_rows, u_data, overwrite_mode,
                   existing_data, duplicate_info, next_empty_row, u_requests,
                   u_sent, u_failed_batches, u_appended, table_before>>
    /\ UNCHANGED u_updated

UploadNext ==
    \/ GetExistingData
    \/ FindDuplicateRows
    \/ CreateNewSheet
    \/ CreateNewSheetFails
    \/ UploadHeader
    \/ UploadHeaderFails
    \/ PrepareUpdates
    \/ SheetIdNotFound
    \/ UpdateBatch
    \/ SkipUpdates
    \/ AppendNewRows
    \/ AppendNewRowsFails
    \/ SkipAppend
    \/ FinishUpload

(***************************************************************************)
(* Properties of upload_with_duplicate_handling.                           *)
(***************************************************************************)
\* no two data rows of the sheet hold the same Name
NoSharedName(t) ==
    \A i, j \in 2..Len(t) : i # j => t[i].Name # t[j].Name

\* the new rows are rows convert_to_csv_data produces: every Name is filled
TransformerOutput(data) ==
    \A i \in 2..Len(data) : data[i].Name # EmptyCell

\* C1: when a run of upload_with_duplicate_handling in overwrite mode returns
\* True and no two data rows of the sheet held the same Name before the run,
\* then no two data rows of the sheet hold the same Name after the run, for
\* every list of new rows the transformer can produce.
C1_NoSharedNameAfterOverwrite ==
    (/\ u_pc = "done"
     /\ u_result = "True"
     /\ overwrite_mode
     /\ TransformerOutput(u_data)
     /\ NoSharedName(table_before))
    => NoSharedName(table)

\* C11: find_duplicate_rows is a stable partition of the new rows: every new
\* row is in exactly one of the two outputs, as the update of the existing
\* row that holds its key when an existing row holds its key, otherwise (also
\* when its key cell is empty) as an append, and the appends are in the order
\* of the input.
C11_StablePartition ==
    (u_pc \notin {"read", "find"} /\ Len(existing_data) >= 2) =>
        LET new_rows == Tail(u_data)
            ids == existing_ids(existing_data)
            updates == duplicate_info.duplicates
            appends == duplicate_info.filtered_new_rows
        IN  /\ \A i \in 1..Len(new_rows) :
                  LET as_update ==
                          \E k \in DOMAIN updates :
                              /\ updates[k].new_data = new_rows[i]
                              /\ existing_data[updates[k].existing_row].Name
                                    = new_rows[i].Name
                      as_append ==
                          \E a \in 1..Len(appends) : appends[a] = new_rows[i]
                  IN  /\ as_update \/ as_append
                      /\ ~(as_update /\ as_append)
                      /\ (as_update <=> new_rows[i].Name \in DOMAIN ids)
            /\ \A a, b \in 1..Len(appends) :
                  a < b => appends[a].body < appends[b].body

SetMin(S) == CHOOSE x \in S : \A y \in S : x <= y

\* C12: when the sheet holds several rows with the same key, the lookup of
\* find_duplicate_rows maps the key to the row number of its first
\* occurrence, and the update for that key is addressed to that row.
C12_FirstOccurrenceWins ==
    (u_pc \notin {"read", "find"} /\ Len(existing_data) >= 2) =>
        \A k \in DOMAIN duplicate_info.duplicates :
            duplicate_info.duplicates[k].existing_row =
                SetMin({r \in 2..Len(existing_data) : existing_data[r].Name = k})

\* C13: the row number at which a run starts appending is the number of rows
\* the sheet holds (header row included) plus one, and no appended row is
\* written over a row the sheet held before.
C13_AppendAfterLastRow ==
    /\ (u_pc = "append" => next_empty_row = Len(table) + 1)
    /\ (u_appended > 0 =>
           \A r \in 2..Len(table_before) :
               r \notin next_empty_row .. (next_empty_row + u_appended - 1))

\* C16: a run of upload_with_duplicate_handling in which a batch of
\* update_duplicate_rows failed, and which sent every batch and wrote every
\* row to append, ends with the outcome "partial": neither False (failed)
\* nor True (full success).
C16_FailedBatchReportedPartial ==
    (/\ u_pc = "done"
     /\ u_failed_batches > 0
     /\ u_sent = Len(u_requests)
     /\ u_appended = Len(new_rows_of(duplicate_info, u_data, overwrite_mode)))
        => u_result = "partial"

\* C17: a run in which the sheet id could not be resolved ends with False
\* and has written no update and no appended row.
C17_UnresolvedSheetIdIsFatal ==
    (u_pc = "done" /\ u_id_failed) =>
        /\ u_result = "False"
        /\ u_updated = 0
        /\ u_appended = 0

\* C18: at the end of a run nothing is formatted when nothing was appended,
\* and the rows named by the formatting requests, if any, are exactly the
\* appended rows next_empty_row .. next_empty_row + (appended rows) - 1.
C18_FormatsExactlyAppendedRows ==
    (u_pc = "done") =>
        /\ (u_appended = 0 => u_formatted = {})
        /\ (u_formatted # {} =>
                u_formatted = next_empty_row .. (next_empty_row + u_appended - 1))

\* C24: when a run of upload_with_duplicate_handling has ended, the sheet
\* holds at least as many rows as before, no row that held an order is
\* blank, every existing data row whose Name is the Name of no new row is
\* unchanged, and in append mode every existing data row is unchanged.
C24_ExistingRowsKept ==
    (u_pc = "done") =>
        /\ Len(table) >= Len(table_before)
        /\ \A r \in 2..Len(table_before) :
               /\ table[r] # blank_row
               /\ (\/ ~overwrite_mode
                   \/ \A i \in 2..Len(u_data) : u_data[i].Name # table_before[r].Name)
                      => table[r] = table_before[r]

(***************************************************************************)
(* The capacity operations of the uploader.  _ensure_sheet_has_rows is     *)
(* called by append_new_rows, which writes only when it returned True;     *)
(* _ensure_sheet_capacity is called by upload_data_to_sheet and            *)
(* append_data_to_sheet, which drop its result and send the write anyway.  *)
(* In every caller the required row count is the last row of the write.    *)
(* The service refuses a values().update whose range exceeds the grid.     *)
(***************************************************************************)
InitialCapacities == {NewSheetRows, 4000}
RequiredRows == {1, 4000, 4500, 5000}

\* _ensure_sheet_has_rows: "if current_rows >= required_rows: return True"
has_rows_grows(current_rows, required_rows) == ~(current_rows >= required_rows)

\* _ensure_sheet_has_rows: updateSheetProperties with rowCount = required_rows
has_rows_target(current_rows, required_rows) == required_rows

\* _ensure_sheet_capacity: "if required_rows > current_rows"
capacity_grows(current_rows, required_rows) == required_rows > current_rows

capacity_target_length_only(current_rows, required_rows) ==
    required_rows - current_rows

\* _ensure_sheet_capacity: appendDimension of additional_rows =
\* required_rows - current_rows, which the service adds to the row count
capacity_target(current_rows, required_rows) ==
    current_rows + (required_rows - current_rows)

NoCapacityCall ==
    [op |-> "none", required |-> 0, before |-> 0, read |-> FALSE,
     issued |-> FALSE, target |-> 0, applied |-> FALSE, returned |-> FALSE]

CapacityInit ==
    /\ k_pc = "idle"
    /\ capacity \in InitialCapacities
    /\ k_calls = 0
    /\ k_last = NoCapacityCall
    /\ k_grows = 0
    /\ k_written = 0

CapacityIdle ==
    /\ k_pc = "idle"
    /\ capacity = NewSheetRows
    /\ k_calls = 0
    /\ k_last = NoCapacityCall
    /\ k_grows = 0
    /\ k_written = 0

\* _get_sheet_id returns None, the metadata get raises, or the sheet is not
\* in the answer: the operation returns False before comparing anything
EnsureSheetHasRowsUnread ==
    /\ k_pc = "idle"
    /\ k_calls < MaxCalls
    /\ \E required_rows \in RequiredRows :
           k_last' = [NoCapacityCall EXCEPT !.op = "has_rows",
                                            !.required = required_rows]
    /\ k_calls' = k_calls + 1
    /\ UNCHANGED <<k_pc, capacity, k_grows, k_written>>
    /\ CapacityFrame

\* current_rows >= required_rows: True without a request
EnsureSheetHasRowsEnough ==
    /\ k_pc = "idle"
    /\ k_calls < MaxCalls
    /\ \E required_rows \in RequiredRows :
           /\ ~has_rows_grows(capacity, required_rows)
           /\ k_last' = [NoCapacityCall EXCEPT !.op = "has_rows",
                                               !.required = required_rows,
                                               !.before = capacity,
                                               !.read = TRUE,
                                               !.returned = TRUE]
    /\ k_calls' = k_calls + 1
    /\ k_pc' = "write"
    /\ UNCHANGED <<capacity, k_grows, k_written>>
    /\ CapacityFrame

\* the sheet is extended to required_rows rows
EnsureSheetHasRowsGrows ==
    /\ k_pc = "idle"
    /\ k_calls < MaxCalls
    /\ \E required_rows \in RequiredRows :
           /\ has_rows_grows(capacity, required_rows)
           /\ capacity' = has_rows_target(capacity, required_rows)
           /\ k_last' = [op |-> "has_rows", required |-> required_rows,
                         before |-> capacity, read |-> TRUE, issued |-> TRUE,
                         target |-> has_rows_target(capacity, required_rows),
                         applied |-> TRUE, returned |-> TRUE]
    /\ k_calls' = k_calls + 1
    /\ k_grows' = k_grows + 1
    /\ k_pc' = "write"
    /\ UNCHANGED k_written
    /\ CapacityFrame

\* the batchUpdate raises: the sheet keeps its rows, False is returned
EnsureSheetHasRowsGrowFails ==
    /\ k_pc = "idle"
    /\ k_calls < MaxCalls
    /\ \E required_rows \in RequiredRows :
           /\ has_rows_grows(capacity, required_rows)
           /\ k_last' = [op |-> "has_rows", required |-> required_rows,
                         before |-> capacity, read |-> TRUE, issued |-> TRUE,
                         target |-> has_rows_target(capacity, required_rows),
                         applied |-> FALSE, returned |-> FALSE]
    /\ k_calls' = k_calls + 1
    /\ UNCHANGED <<k_pc, capacity, k_grows, k_written>>
    /\ CapacityFrame

\* the metadata get raises or the sheet is not found: False, which the
\* callers of _ensure_sheet_capacity do not look at
EnsureSheetCapacityUnread ==
    /\ k_pc = "idle"
    /\ k_calls < MaxCalls
    /\ \E required_rows \in RequiredRows :
           k_last' = [NoCapacityCall EXCEPT !.op = "capacity",
                                            !.required = required_rows]
    /\ k_calls' = k_calls + 1
    /\ k_pc' = "write"
    /\ UNCHANGED <<capacity, k_grows, k_written>>
    /\ CapacityFrame

EnsureSheetCapacityEnough ==
    /\ k_pc = "idle"
    /\ k_calls < MaxCalls
    /\ \E required_rows \in RequiredRows :
           /\ ~capacity_grows(capacity, required_rows)
           /\ k_last' = [NoCapacityCall EXCEPT !.op = "capacity",
                                               !.required = required_rows,
                                               !.before = capacity,
                                               !.read = TRUE,
                                               !.returned = TRUE]
    /\ k_calls' = k_calls + 1
    /\ k_pc' = "write"
    /\ UNCHANGED <<capacity, k_grows, k_written>>
    /\ CapacityFrame

EnsureSheetCapacityGrows ==
    /\ k_pc = "idle"
    /\ k_calls < MaxCalls
    /\ \E required_rows \in RequiredRows :
           /\ capacity_grows(capacity, required_rows)
           /\ capacity' = capacity_target(capacity, required_rows)
           /\ k_last' = [op |-> "capacity", required |-> required_rows,
                         before |-> capacity, read |-> TRUE, issued |-> TRUE,
                         target |-> capacity_target(capacity, required_rows),
                         applied |-> TRUE, returned |-> TRUE]
    /\ k_calls' = k_calls + 1
    /\ k_grows' = k_grows + 1
    /\ k_pc' = "write"
    /\ UNCHANGED k_written
    /\ CapacityFrame

EnsureSheetCapacityGrowFails ==
    /\ k_pc = "idle"
    /\ k_calls < MaxCalls
    /\ \E required_rows \in RequiredRows :
           /\ capacity_grows(capacity, required_rows)
           /\ k_last' = [op |-> "capacity", required |-> required_rows,
                         before |-> capacity, read |-> TRUE, issued |-> TRUE,
                         target |-> capacity_target(capacity, required_rows),
                         applied |-> FALSE, returned |-> FALSE]
    /\ k_calls' = k_calls + 1
    /\ k_pc' = "write"
    /\ UNCHANGED <<capacity, k_grows, k_written>>
    /\ CapacityFrame

\* values().update of the rows up to k_last.required, inside the grid
WriteAccepted ==
    /\ k_pc = "write"
    /\ k_last.required <= capacity
    /\ k_written' = k_last.required
    /\ k_pc' = "idle"
    /\ UNCHANGED <<capacity, k_calls, k_last, k_grows>>
    /\ CapacityFrame

\* the range exceeds the grid: the service answers with an error
WriteRefused ==
    /\ k_pc = "write"
    /\ k_last.required > capacity
    /\ k_pc' = "idle"
    /\ UNCHANGED <<capacity, k_calls, k_last, k_grows, k_written>>
    /\ CapacityFrame

CapacityNext ==
    \/ EnsureSheetHasRowsUnread
    \/ EnsureSheetHasRowsEnough
    \/ EnsureSheetHasRowsGrows
    \/ EnsureSheetHasRowsGrowFails
    \/ EnsureSheetCapacityUnread
    \/ EnsureSheetCapacityEnough
    \/ EnsureSheetCapacityGrows
    \/ EnsureSheetCapacityGrowFails
    \/ WriteAccepted
    \/ WriteRefused

CapacityCallOk ==
    /\ (k_last.issued =>
            /\ k_last.read
            /\ k_last.required > k_last.before
            /\ k_last.target = k_last.required)
    /\ (k_last.read => (k_last.issued <=> k_last.required > k_last.before))
    /\ (k_last.applied => k_last.issued /\ capacity = k_last.required)
    /\ (k_last.returned => capacity >= k_last.required)
    /\ ((k_pc = "write" /\ k_last.op = "has_rows") =>
            capacity >= k_last.required)
    /\ k_written <= capacity

total_batches(n) == (n + UpdateBatchSize - 1) \div UpdateBatchSize

\* the requests of the slice requests[i:i + batch_size], numbered from 1
batch_requests(n, i) == (i + 1) .. Min(i + UpdateBatchSize, n)

next_batch_start_skipping(i) == i + UpdateBatchSize + 1

\* range(0, len(requests), batch_size): the value of i after i
next_batch_start(i) == i + UpdateBatchSize

UpdateInit ==
    /\ d_pc = "start"
    /\ d_requests \in 0..MaxUpdates
    /\ d_i = 0
    /\ d_calls = <<>>
    /\ d_result = "none"

UpdateIdle ==
    /\ d_pc = "start"
    /\ d_requests = 0
    /\ d_i = 0
    /\ d_calls = <<>>
    /\ d_result = "none"

\* "if not duplicates: return True"
UpdateNothing ==
    /\ d_pc = "start"
    /\ d_requests = 0
    /\ d_pc' = "done"
    /\ d_result' = "True"
    /\ UNCHANGED <<d_requests, d_i, d_calls>>
    /\ UpdateFrame

\* _get_sheet_id returned None: False before any request is built
UpdateSheetIdNotFound ==
    /\ d_pc = "start"
    /\ d_requests > 0
    /\ d_pc' = "done"
    /\ d_result' = "False"
    /\ UNCHANGED <<d_requests, d_i, d_calls>>
    /\ UpdateFrame

\* the requests are built, the batch loop begins at i = 0
UpdateBuildRequests ==
    /\ d_pc = "start"
    /\ d_requests > 0
    /\ d_pc' = "loop"
    /\ UNCHANGED <<d_requests, d_i, d_calls, d_result>>
    /\ UpdateFrame

\* one pass of the batch loop whose batchUpdate succeeds
UpdateSendBatch ==
    /\ d_pc = "loop"
    /\ d_i < d_requests
    /\ d_calls' = Append(d_calls, [requests |-> batch_requests(d_requests, d_i),
                                   batch_num |-> (d_i \div UpdateBatchSize) + 1,
                                   ok |-> TRUE])
    /\ d_i' = next_batch_start(d_i)
    /\ UNCHANGED <<d_pc, d_requests, d_result>>
    /\ UpdateFrame

\* one pass whose batchUpdate raises: logged, "continue"
UpdateSendBatchFails ==
    /\ d_pc = "loop"
    /\ d_i < d_requests
    /\ d_calls' = Append(d_calls, [requests |-> batch_requests(d_requests, d_i),
                                   batch_num |-> (d_i \div UpdateBatchSize) + 1,
                                   ok |-> FALSE])
    /\ d_i' = next_batch_start(d_i)
    /\ UNCHANGED <<d_pc, d_requests, d_result>>
    /\ UpdateFrame

\* the range is exhausted: "return True"
UpdateReturn ==
    /\ d_pc = "loop"
    /\ d_i >= d_requests
    /\ d_pc' = "done"
    /\ d_result' = "True"
    /\ UNCHANGED <<d_requests, d_i, d_calls>>
    /\ UpdateFrame

UpdateNext ==
    \/ UpdateNothing
    \/ UpdateSheetIdNotFound
    \/ UpdateBuildRequests
    \/ UpdateSendBatch
    \/ UpdateSendBatchFails
    \/ UpdateReturn

\* the number of calls that carry request r
CallsCarrying(r) ==
    Cardinality({c \in 1..Len(d_calls) : r \in d_calls[c].requests})

\* the least k with k * UpdateBatchSize >= n
CeilOfBatches(n) ==
    CHOOSE k \in 0..n : /\ k * UpdateBatchSize >= n
                        /\ \A j \in 0..n : j * UpdateBatchSize >= n => k <= j

C27_FailedBatchSentAgain ==
    \A c \in 1..Len(d_calls) :
        (/\ ~d_calls[c].ok
         /\ (c < Len(d_calls) \/ d_pc = "done"))
            => \E c2 \in 1..Len(d_calls) :
                   /\ c2 # c
                   /\ d_calls[c2].batch_num = d_calls[c].batch_num

(***************************************************************************)
(* The weekly run.  _update_order_data runs the export, the customer       *)
(* database generator and the uploader as child processes with             *)
(* stdout=PIPE only, so result.stderr is None: the expressions             *)
(* result.stderr[:100] and result.stderr.lower() of the returncode != 0    *)
(* branches raise, and the function's `except Exception` stores the status *)
(* ("error", 0, ..., "error").  Its TimeoutExpired handler names the       *)
(* undefined variable `progress`: the NameError leaves the function and is *)
(* caught by run_weekly_report.  The uploader's main() returns normally    *)
(* whether the upload succeeded or not, so its exit code is 0 in both      *)
(* cases.                                                                  *)
(***************************************************************************)
NoStatus == [status |-> "none", progress |-> 0, current_step |-> ""]

\* the progress values _update_order_data stores on entering its steps
step_progress(current_step) ==
    CASE current_step = "step1" -> 5
      [] current_step = "step2" -> 30
      [] current_step = "step3" -> 60

\* _update_status: the status is written to the file and to Firestore; an
\* exception while writing is logged and nothing (new) is stored
update_status(status, progress, current_step) ==
    \E stored \in BOOLEAN :
        IF stored
        THEN LET data == [status |-> status, progress |-> progress,
                          current_step |-> current_step]
             IN  /\ w_status' = data
                 /\ w_trace' = Append(w_trace, data)
        ELSE UNCHANGED <<w_status, w_trace>>

WeeklyInit ==
    /\ w_pc = "idle"
    /\ w_runs = 0
    /\ w_notify = TRUE
    /\ w_status = NoStatus
    /\ w_trace = <<>>
    /\ w_completed = {}
    /\ w_export = "none"
    /\ w_upload = "none"
    /\ w_data_success = FALSE
    /\ execution_history = <<>>
    /\ w_result = "none"

WeeklyIdle == WeeklyInit

\* `return False` of _update_order_data: run_weekly_report logs a warning
\* and goes on with the summary
data_update_failed ==
    /\ w_data_success' = FALSE
    /\ w_pc' = "summary"

\* the `except Exception` of run_weekly_report: an error record is kept and
\* False is returned
weekly_report_raises ==
    /\ execution_history' = Append(execution_history,
           [status |-> "error", data_update_success |-> FALSE])
    /\ w_result' = "False"
    /\ w_pc' = "returned"

\* run_weekly_report is called; _update_order_data stores its first status
WeeklyRunStarts ==
    /\ w_pc = "idle"
    /\ w_runs < MaxRuns
    /\ w_runs' = w_runs + 1
    /\ w_notify' \in BOOLEAN
    /\ \E stored \in BOOLEAN :
           IF stored
           THEN LET data == [status |-> "running", progress |-> step_progress("step1"),
                             current_step |-> "step1"]
                IN  /\ w_status' = data
                    /\ w_trace' = <<data>>
           ELSE /\ w_status' = w_status
                /\ w_trace' = <<>>
    /\ w_completed' = {}
    /\ w_export' = "none"
    /\ w_upload' = "none"
    /\ w_data_success' = FALSE
    /\ w_result' = "none"
    /\ w_pc' = "step1"
    /\ UNCHANGED execution_history
    /\ WeeklyFrame

\* step 1: the export process exits with 0 and printed EXPORTED_FILE:<name>
ExportSucceeds ==
    /\ w_pc = "step1"
    /\ w_export' = "ok"
    /\ w_completed' = w_completed \cup {"step1"}
    /\ update_status("running", 30, "step2")
    /\ w_pc' = "step2"
    /\ UNCHANGED <<w_runs, w_notify, w_upload, w_data_success,
                   execution_history, w_result>>
    /\ WeeklyFrame

\* step 1: the export process exits with 0 and printed NO_FILE
ExportNoFile ==
    /\ w_pc = "step1"
    /\ w_export' = "failed"
    /\ update_status("error", 5, "step1")
    /\ data_update_failed
    /\ UNCHANGED <<w_runs, w_notify, w_completed, w_upload,
                   execution_history, w_result>>
    /\ WeeklyFrame

\* step 2: the generator exits with 0
CustomerDbSucceeds ==
    /\ w_pc = "step2"
    /\ w_completed' = w_completed \cup {"step2"}
    /\ update_status("running", 60, "step3")
    /\ w_pc' = "step3"
    /\ UNCHANGED <<w_runs, w_notify, w_export, w_upload, w_data_success,
                   execution_history, w_result>>
    /\ WeeklyFrame

\* step 3: the uploader process exits with 0, which main() of
\* spreadsheet_uploader.py does after a successful and after a failed upload
UploadProcessExitsZero ==
    /\ w_pc = "step3"
    /\ w_upload' \in {"ok", "failed"}
    /\ w_completed' = IF w_upload' = "ok" THEN w_completed \cup {"step3"}
                      ELSE w_completed
    /\ update_status("running", 90, "summary")
    /\ w_data_success' = TRUE
    /\ w_pc' = "summary"
    /\ UNCHANGED <<w_runs, w_notify, w_export, execution_history, w_result>>
    /\ WeeklyFrame

\* the script of the step is not where it is looked for
ScriptMissing ==
    /\ w_pc \in {"step1", "step2", "step3"}
    /\ update_status("error", step_progress(w_pc), w_pc)
    /\ w_export' = IF w_pc = "step1" THEN "failed" ELSE w_export
    /\ w_upload' = IF w_pc = "step3" THEN "failed" ELSE w_upload
    /\ data_update_failed
    /\ UNCHANGED <<w_runs, w_notify, w_completed, execution_history, w_result>>
    /\ WeeklyFrame

\* the child process of the step exits with a code other than 0: the error
\* branch raises on result.stderr (None) and the status of the
\* `except Exception` branch is stored
ProcessFails ==
    /\ w_pc \in {"step1", "step2", "step3"}
    /\ update_status("error", 0, "error")
    /\ w_export' = IF w_pc = "step1" THEN "failed" ELSE w_export
    /\ w_upload' = IF w_pc = "step3" THEN "failed" ELSE w_upload
    /\ data_update_failed
    /\ UNCHANGED <<w_runs, w_notify, w_completed, execution_history, w_result>>
    /\ WeeklyFrame

\* the child process of the step runs into its timeout: the handler raises
\* NameError before it stores a status, run_weekly_report catches it
ProcessTimesOut ==
    /\ w_pc \in {"step1", "step2", "step3"}
    /\ w_export' = IF w_pc = "step1" THEN "failed" ELSE w_export
    /\ w_upload' = IF w_pc = "step3" THEN "failed" ELSE w_upload
    /\ weekly_report_raises
    /\ UNCHANGED <<w_runs, w_notify, w_status, w_trace, w_completed,
                   w_data_success>>
    /\ WeeklyFrame

\* generate_weekly_summary returned the summary data
SummaryGenerated ==
    /\ w_pc = "summary"
    /\ w_pc' = "notify"
    /\ UNCHANGED <<w_runs, w_notify, w_status, w_trace, w_completed, w_export,
                   w_upload, w_data_success, execution_history, w_result>>
    /\ WeeklyFrame

\* generate_weekly_summary returned nothing: an error notification is sent
\* and False is returned, without a record and without a status
SummaryFails ==
    /\ w_pc = "summary"
    /\ w_result' = "False"
    /\ w_pc' = "returned"
    /\ UNCHANGED <<w_runs, w_notify, w_status, w_trace, w_completed, w_export,
                   w_upload, w_data_success, execution_history>>
    /\ WeeklyFrame

\* generate_weekly_summary or format_weekly_summary raises
SummaryRaises ==
    /\ w_pc = "summary"
    /\ weekly_report_raises
    /\ UNCHANGED <<w_runs, w_notify, w_status, w_trace, w_completed, w_export,
                   w_upload, w_data_success>>
    /\ WeeklyFrame

\* the summary is sent (or printed when notify is False), the record with
\* 'status': 'success' is kept, the last status is stored, True is returned
FinishWeeklyReport ==
    /\ w_pc = "notify"
    /\ execution_history' = Append(execution_history,
           [status |-> "success", data_update_success |-> w_data_success])
    /\ update_status("success", 100, "done")
    /\ w_result' = "True"
    /\ w_pc' = "returned"
    /\ UNCHANGED <<w_runs, w_notify, w_completed, w_export, w_upload,
                   w_data_success>>
    /\ WeeklyFrame

\* send_message returned False: an error notification, `return False`
NotificationFails ==
    /\ w_pc = "notify"
    /\ w_notify
    /\ w_result' = "False"
    /\ w_pc' = "returned"
    /\ UNCHANGED <<w_runs, w_notify, w_status, w_trace, w_completed, w_export,
                   w_upload, w_data_success, execution_history>>
    /\ WeeklyFrame

\* schedule_weekly_report waits for the next Monday
WaitForNextRun ==
    /\ w_pc = "returned"
    /\ w_pc' = "idle"
    /\ UNCHANGED <<w_runs, w_notify, w_status, w_trace, w_completed, w_export,
                   w_upload, w_data_success, execution_history, w_result>>
    /\ WeeklyFrame

WeeklyNext ==
    \/ WeeklyRunStarts
    \/ ExportSucceeds
    \/ ExportNoFile
    \/ CustomerDbSucceeds
    \/ UploadProcessExitsZero
    \/ ScriptMissing
    \/ ProcessFails
    \/ ProcessTimesOut
    \/ SummaryGenerated
    \/ SummaryFails
    \/ SummaryRaises
    \/ FinishWeeklyReport
    \/ NotificationFails
    \/ WaitForNextRun

StepOrder == <<"step1", "step2", "step3", "summary", "done">>

StepRank(current_step) ==
    IF \E r \in 1..Len(StepOrder) : StepOrder[r] = current_step
    THEN CHOOSE r \in 1..Len(StepOrder) : StepOrder[r] = current_step
    ELSE 0

\* C19: in the statuses one run stores, in order, the progress never
\* decreases, the current step is one of step1, step2, step3, summary, done
\* and never goes back to an earlier step (so none is entered twice), and
\* the current step is only stored after step1, step2 and step3, as far as
\* they come before it, have completed.
C19_PublishedStateMovesForward ==
    /\ \A i \in 1..Len(w_trace) :
           /\ StepRank(w_trace[i].current_step) > 0
           /\ \A j \in 1..Len(w_trace) :
                  i < j =>
                      /\ w_trace[i].progress <= w_trace[j].progress
                      /\ StepRank(w_trace[i].current_step) <=
                             StepRank(w_trace[j].current_step)
    /\ (w_trace # <<>> =>
           \A r \in 1..3 :
               r < StepRank(w_trace[Len(w_trace)].current_step) =>
                   StepOrder[r] \in w_completed)

\* C20: a run that returned with 'status': 'success' in its record (and the
\* status "success" as the last one it stored) had a successful export and a
\* successful upload and stored no "error" status.
C20_SuccessOnlyIfExportAndUploadSucceeded ==
    (/\ w_pc = "returned"
     /\ w_result = "True"
     /\ execution_history[Len(execution_history)].status = "success")
        => /\ w_export = "ok"
           /\ w_upload = "ok"
           /\ \A i \in 1..Len(w_trace) : w_trace[i].status # "error"

(***************************************************************************)
(* The run-history file execution_history.json.  The exporter reads the    *)
(* file, appends its record, keeps the last 10 and writes the list back.   *)
(* The scheduler appends to the list it holds in memory and writes that    *)
(* list; the list is empty at construction and is read from the file only  *)
(* by load_execution_history, which not every entry point calls.  Records  *)
(* are numbered in the order in which they are saved.                      *)
(***************************************************************************)
HistoryCap == 10

\* history[-10:]
last_records(history, n) ==
    IF Len(history) <= n THEN history
    ELSE SubSeq(history, Len(history) - n + 1, Len(history))

HistoryInit ==
    /\ history_file = <<>>
    /\ h_execution_history = <<>>
    /\ h_saved = <<>>
    /\ h_starts = 0

HistoryIdle == HistoryInit

\* ShopifyOrderExporter.save_execution_history
ExporterSavesHistory ==
    /\ Len(h_saved) < MaxSaves
    /\ LET execution_info == Len(h_saved) + 1
       IN  /\ history_file' = last_records(Append(history_file, execution_info),
                                           HistoryCap)
           /\ h_saved' = Append(h_saved, execution_info)
    /\ UNCHANGED <<h_execution_history, h_starts>>
    /\ HistoryFrame

\* run_weekly_report: self.execution_history.append(record) and
\* _save_execution_history, which dumps the whole list
SchedulerSavesHistory ==
    /\ Len(h_saved) < MaxSaves
    /\ LET execution_record == Len(h_saved) + 1
       IN  /\ h_execution_history' = Append(h_execution_history, execution_record)
           /\ history_file' = h_execution_history'
           /\ h_saved' = Append(h_saved, execution_record)
    /\ UNCHANGED h_starts
    /\ HistoryFrame

\* a WeeklyScheduler is constructed (execution_history = []); its caller
\* calls load_execution_history or does not
SchedulerStarts ==
    /\ h_starts < MaxStarts
    /\ h_starts' = h_starts + 1
    /\ \E loaded \in BOOLEAN :
           h_execution_history' = IF loaded THEN history_file ELSE <<>>
    /\ UNCHANGED <<history_file, h_saved>>
    /\ HistoryFrame

HistoryNext ==
    \/ ExporterSavesHistory
    \/ SchedulerSavesHistory
    \/ SchedulerStarts

\* C21: after n saves, by either writer, execution_history.json holds the
\* last min(n, 10) saved records in the order in which they were saved.
C21_HistoryAppendOnlyCapped ==
    history_file = last_records(h_saved, HistoryCap)

(***************************************************************************)
(* The two thread pools.  fetch_all_orders_parallel submits one task per   *)
(* active store to ThreadPoolExecutor(max_workers=2); a task extracts the  *)
(* store and extends all_orders while holding the lock.                    *)
(* fetch_all_customers uses max_workers = min(4, len(active_stores)); its  *)
(* main thread extends all_customers with each completed, non-empty        *)
(* result.  A pool starts queued tasks in submission order whenever a      *)
(* worker is free.  A record is written <<store, k>>: the k-th record of   *)
(* the list the store's extraction returned.                               *)
(***************************************************************************)
OrdersMaxWorkers == 2
CustomersMaxWorkersCap == 4

\* ThreadPoolExecutor(max_workers=...)
max_workers(kind, stores) ==
    IF kind = "orders" THEN OrdersMaxWorkers
    ELSE Min(CustomersMaxWorkersCap, stores)

store_records(store, n) == [k \in 1..n |-> <<store, k>>]

extend_replacing(all, store_list) == store_list

\* all_orders.extend(store_orders)
extend(all, store_list) == all \o store_list

\* the workers that are busy: a task of fetch_all_orders_parallel ends after
\* its extend, a task of fetch_all_customers ends with the extraction
busy_workers ==
    Cardinality({s \in 1..p_stores :
        \/ p_state[s] = "running"
        \/ (p_kind = "orders" /\ p_state[s] = "fetched")})

\* the account extractions in flight
in_flight == Cardinality({s \in 1..p_stores : p_state[s] = "running"})

ParallelInit ==
    /\ p_kind \in {"orders", "customers"}
    /\ p_stores \in 1..MaxStores
    /\ p_state = [s \in 1..p_stores |-> "queued"]
    /\ p_result = [s \in 1..p_stores |-> <<>>]
    /\ p_all = <<>>
    /\ p_returned = FALSE

ParallelIdle ==
    /\ p_kind = "orders"
    /\ p_stores = 1
    /\ p_state = [s \in 1..1 |-> "queued"]
    /\ p_result = [s \in 1..1 |-> <<>>]
    /\ p_all = <<>>
    /\ p_returned = FALSE

\* a free worker takes the first task of the queue
WorkerTakesStore ==
    /\ busy_workers < max_workers(p_kind, p_stores)
    /\ \E s \in 1..p_stores :
           /\ p_state[s] = "queued"
           /\ \A t \in 1..(s - 1) : p_state[t] # "queued"
           /\ p_state' = [p_state EXCEPT ![s] = "running"]
    /\ UNCHANGED <<p_kind, p_stores, p_result, p_all, p_returned>>
    /\ ParallelFrame

\* the extraction of a store returns its list
StoreExtracted ==
    /\ \E s \in 1..p_stores, n \in 0..MaxStoreRecords :
           /\ p_state[s] = "running"
           /\ p_state' = [p_state EXCEPT ![s] = "fetched"]
           /\ p_result' = [p_result EXCEPT ![s] = store_records(s, n)]
    /\ UNCHANGED <<p_kind, p_stores, p_all, p_returned>>
    /\ ParallelFrame

\* the extraction of a store raises: logged, nothing is merged
StoreExtractionRaises ==
    /\ \E s \in 1..p_stores :
           /\ p_state[s] = "running"
           /\ p_state' = [p_state EXCEPT ![s] = "failed"]
    /\ UNCHANGED <<p_kind, p_stores, p_result, p_all, p_returned>>
    /\ ParallelFrame

\* orders: the worker extends all_orders under the lock; customers: the
\* main thread extends all_customers with the result of a completed future
MergeStore ==
    /\ \E s \in 1..p_stores :
           /\ p_state[s] = "fetched"
           /\ p_all' = extend(p_all, p_result[s])
           /\ p_state' = [p_state EXCEPT ![s] = "merged"]
    /\ UNCHANGED <<p_kind, p_stores, p_result, p_returned>>
    /\ ParallelFrame

\* every future is completed: the pool is left and the list is returned
ParallelReturn ==
    /\ ~p_returned
    /\ \A s \in 1..p_stores : p_state[s] \in {"merged", "failed"}
    /\ p_returned' = TRUE
    /\ UNCHANGED <<p_kind, p_stores, p_state, p_result, p_all>>
    /\ ParallelFrame

ParallelNext ==
    \/ WorkerTakesStore
    \/ StoreExtracted
    \/ StoreExtractionRaises
    \/ MergeStore
    \/ ParallelReturn

\* C22: at most 2 account extractions are in flight at any moment, in
\* fetch_all_orders_parallel and in fetch_all_customers, and when the
\* function has returned every active store was extracted once.
C22_AtMostTwoInFlight ==
    /\ in_flight <= 2
    /\ (p_returned => \A s \in 1..p_stores : p_state[s] \in {"merged", "failed"})

\* the positions of p_all that hold the record <<s, k>>
PositionsOf(s, k) == {i \in 1..Len(p_all) : p_all[i] = <<s, k>>}

\* C28: under every interleaving of the workers of fetch_all_orders_parallel
\* the returned list holds every record of every extraction that returned
\* exactly once, the records of one store next to each other in the order
\* of the store's list, and no record of a store whose extraction raised.
C28_MergeKeepsEveryRecordOnce ==
    (p_kind = "orders" /\ p_returned) =>
        /\ \A s \in 1..p_stores :
               IF p_state[s] = "merged"
               THEN /\ \A k \in 1..Len(p_result[s]) :
                           Cardinality(PositionsOf(s, k)) = 1
                    /\ \A k \in 1..(Len(p_result[s]) - 1) :
                           \E i \in 1..(Len(p_all) - 1) :
                               /\ p_all[i] = <<s, k>>
                               /\ p_all[i + 1] = <<s, k + 1>>
               ELSE \A i \in 1..Len(p_all) : p_all[i][1] # s
        /\ \A i \in 1..Len(p_all) :
               /\ p_all[i][1] \in 1..p_stores
               /\ p_all[i][2] \in 1..Len(p_result[p_all[i][1]])

C28_Witness ==
    /\ p_kind = "orders"
    /\ p_returned
    /\ p_stores = 3
    /\ p_state[1] = "merged"
    /\ p_state[2] = "failed"
    /\ p_state[3] = "merged"
    /\ p_all = <<<<3, 1>>, <<3, 2>>, <<1, 1>>, <<1, 2>>>>

(***************************************************************************)
(* _get_data_in_batches, the read of a large sheet by row ranges.  The     *)
(* sheet holds the header in row 1 and the order named r - 1 in data row   *)
(* r.  The batch size is the function's argument and is drawn from small   *)
(* values; get_existing_data passes the default.                           *)
(***************************************************************************)
sheet_row(r) == IF r = 1 THEN header_row ELSE [Name |-> r - 1, body |-> 0]

\* batch_count = (total_rows + batch_size - 1) // batch_size
batch_count(total_rows, size) == (total_rows + size - 1) \div size

\* the rows A{start_row}:ZZ{end_row} of batch batch_num (counted from 0)
batch_data(total_rows, size, batch_num) ==
    LET start_row == batch_num * size + 1
        end_row == Min((batch_num + 1) * size, total_rows)
    IN  [i \in 1..(end_row - start_row + 1) |-> sheet_row(start_row + i - 1)]

ReadInit ==
    /\ r_pc = "loop"
    /\ r_total_rows \in 2..MaxReadRows
    /\ r_batch_size \in 1..MaxReadBatchSize
    /\ r_batch_num = 0
    /\ r_all_data = <<>>
    /\ r_failed = {}

ReadIdle ==
    /\ r_pc = "loop"
    /\ r_total_rows = 2
    /\ r_batch_size = 1
    /\ r_batch_num = 0
    /\ r_all_data = <<>>
    /\ r_failed = {}

\* one pass of the loop: the batch is read and all_data is extended
ReadBatch ==
    /\ r_pc = "loop"
    /\ r_batch_num < batch_count(r_total_rows, r_batch_size)
    /\ r_all_data' = r_all_data \o batch_data(r_total_rows, r_batch_size, r_batch_num)
    /\ r_batch_num' = r_batch_num + 1
    /\ UNCHANGED <<r_pc, r_total_rows, r_batch_size, r_failed>>
    /\ ReadFrame

\* one pass whose read raises after its retries: logged, "continue"
ReadBatchFails ==
    /\ r_pc = "loop"
    /\ r_batch_num < batch_count(r_total_rows, r_batch_size)
    /\ r_failed' = r_failed \cup {r_batch_num}
    /\ r_batch_num' = r_batch_num + 1
    /\ UNCHANGED <<r_pc, r_total_rows, r_batch_size, r_all_data>>
    /\ ReadFrame

\* "return all_data"
ReadReturn ==
    /\ r_pc = "loop"
    /\ r_batch_num >= batch_count(r_total_rows, r_batch_size)
    /\ r_pc' = "done"
    /\ UNCHANGED <<r_total_rows, r_batch_size, r_batch_num, r_all_data, r_failed>>
    /\ ReadFrame

ReadNext ==
    \/ ReadBatch
    \/ ReadBatchFails
    \/ ReadReturn

\* C23: when the batched read has returned, every batch was tried, the row
\* number find_duplicate_rows derives for a key from the data read is the
\* sheet row that holds the key, and the first row of the data read, which
\* find_duplicate_rows takes as header, is the sheet's header row.
C23_FailedBatchKeepsRowNumbers ==
    (r_pc = "done") =>
        /\ r_batch_num = batch_count(r_total_rows, r_batch_size)
        /\ \A k \in DOMAIN existing_ids(r_all_data) :
               sheet_row(existing_ids(r_all_data)[k]).Name = k
        /\ (r_all_data # <<>> => r_all_data[1] = sheet_row(1))

(***************************************************************************)
(* The money fields of convert_to_csv_data (subtotal, shipping, taxes,     *)
(* total, line-item price, compare-at price).  All six are computed by the *)
(* same expression.  A string is a sequence of characters; the source      *)
(* value is the string of the key 'amount', null, or missing (then the     *)
(* default '0' of .get applies).                                           *)
(***************************************************************************)
AmountChars == {"0", "1", ".", "-"}
Digits == {"0", "1"}

AmountTexts ==
    UNION {[1..n -> AmountChars] : n \in 0..MaxAmountLen}

Amounts ==
    [kind : {"string"}, text : AmountTexts]
        \cup {[kind |-> k, text |-> <<>>] : k \in {"null", "missing"}}

Zero == <<"0">>

\* str.replace(ch, '')
replace(text, ch) == SelectSeq(text, LAMBDA c : c # ch)

\* str.isdigit(): at least one character and every character a digit
isdigit(text) ==
    /\ text # <<>>
    /\ \A i \in 1..Len(text) : text[i] \in Digits

\* .get('amount', '0'): the default applies to a missing key only
get_amount(a) ==
    IF a.kind = "missing" THEN [kind |-> "string", text |-> Zero] ELSE a

\* amount and str(amount).replace('.', '').replace('-', '').isdigit()
amount_accepted(a) ==
    /\ a.kind = "string"
    /\ a.text # <<>>
    /\ isdigit(replace(replace(a.text, "."), "-"))

MoneyInit ==
    /\ m_pc = "read"
    /\ amount \in Amounts
    /\ money_cell = Zero

MoneyIdle ==
    /\ m_pc = "read"
    /\ amount = [kind |-> "null", text |-> <<>>]
    /\ money_cell = Zero

\* the test holds: the cell is str(amount)
MoneyWritten ==
    /\ m_pc = "read"
    /\ amount_accepted(get_amount(amount))
    /\ money_cell' = get_amount(amount).text
    /\ m_pc' = "written"
    /\ UNCHANGED amount
    /\ MoneyFrame

\* the test fails: the cell is '0'
MoneyDefaulted ==
    /\ m_pc = "read"
    /\ ~amount_accepted(get_amount(amount))
    /\ money_cell' = Zero
    /\ m_pc' = "written"
    /\ UNCHANGED amount
    /\ MoneyFrame

MoneyNext ==
    \/ MoneyWritten
    \/ MoneyDefaulted

\* digits, with at most one decimal point, and no sign
valid_non_negative(text) ==
    /\ \A i \in 1..Len(text) : text[i] \in Digits \cup {"."}
    /\ Len(replace(text, ".")) >= 1
    /\ Len(text) - Len(replace(text, ".")) <= 1

\* C29: the cell of a money field is the source string when that string is
\* a well-formed non-negative number, and "0" in every other case (missing,
\* null, negative, not a number).
C29_MoneyCellNumericOrZero ==
    m_pc = "written" =>
        money_cell = IF amount.kind = "string" /\ valid_non_negative(amount.text)
                        THEN amount.text
                        ELSE Zero

(***************************************************************************)
(* fetch_customers_from_store: the page loop of one store.  A request that *)
(* failed (execute_graphql_query returned None after its retries, or a     *)
(* response without 'data') ends the loop with `break` and the function    *)
(* returns store_customers; an exception raised while a page is handled    *)
(* is caught by the function's `except Exception`, which returns [].       *)
(***************************************************************************)
\* the customers of one page that carry an email
batch_customers(page, n) == [k \in 1..n |-> <<page, k>>]

CustomersInit ==
    /\ g_pc = "loop"
    /\ store_customers = <<>>
    /\ g_page_count = 0
    /\ g_stop = "none"
    /\ g_result = <<>>

CustomersIdle == CustomersInit

\* a page is handled and hasNextPage is true
CustomerPageProcessed ==
    /\ g_pc = "loop"
    /\ g_page_count < MaxCustomerPages
    /\ \E n \in 0..MaxPageCustomers :
           store_customers' = store_customers \o batch_customers(g_page_count + 1, n)
    /\ g_page_count' = g_page_count + 1
    /\ UNCHANGED <<g_pc, g_stop, g_result>>
    /\ CustomersFrame

\* a page is handled and hasNextPage is false: break, return store_customers
CustomerLastPage ==
    /\ g_pc = "loop"
    /\ g_page_count < MaxCustomerPages
    /\ \E n \in 0..MaxPageCustomers :
           /\ store_customers' = store_customers \o batch_customers(g_page_count + 1, n)
           /\ g_result' = store_customers \o batch_customers(g_page_count + 1, n)
    /\ g_page_count' = g_page_count + 1
    /\ g_pc' = "done"
    /\ g_stop' = "last_page"
    /\ CustomersFrame

\* the request failed, or the response has no 'data' and its errors are not
\* an access refusal: break, return store_customers
CustomerRequestFails ==
    /\ g_pc = "loop"
    /\ g_pc' = "done"
    /\ g_stop' = "request_failed"
    /\ g_result' = store_customers
    /\ UNCHANGED <<store_customers, g_page_count>>
    /\ CustomersFrame

\* the response has no 'data' and its errors name an access refusal:
\* return []
CustomerAccessDenied ==
    /\ g_pc = "loop"
    /\ g_pc' = "done"
    /\ g_stop' = "access_denied"
    /\ g_result' = <<>>
    /\ UNCHANGED <<store_customers, g_page_count>>
    /\ CustomersFrame

\* handling the page raises (result['data'] is null, an edge without the
\* expected keys, calculate_customer_metrics raises): except Exception,
\* return []
CustomerPageRaises ==
    /\ g_pc = "loop"
    /\ g_page_count < MaxCustomerPages
    /\ g_page_count' = g_page_count + 1
    /\ g_pc' = "done"
    /\ g_stop' = "page_raised"
    /\ g_result' = <<>>
    /\ UNCHANGED store_customers
    /\ CustomersFrame

CustomersNext ==
    \/ CustomerPageProcessed
    \/ CustomerLastPage
    \/ CustomerRequestFails
    \/ CustomerAccessDenied
    \/ CustomerPageRaises

\* C30: when the extraction of one store stops on a failed request or on an
\* error raised while a page is handled, the customers kept from the pages
\* handled before are returned.
C30_FailureReturnsAccumulatedCustomers ==
    (g_pc = "done" /\ g_stop \in {"request_failed", "page_raised"})
        => g_result = store_customers

(***************************************************************************)
(* The specifications.  The variables of the operations a specification    *)
(* does not examine keep their initial values.                             *)
(***************************************************************************)
OthersIdle(own) ==
    /\ (own # "fetch" => FetchIdle)
    /\ (own # "chunk" => ChunkIdle)
    /\ (own # "backfill" => BackfillIdle)
    /\ (own # "convert" => ConvertIdle)
    /\ (own # "upload" => UploadIdle)
    /\ (own # "capacity" => CapacityIdle)
    /\ (own # "update" => UpdateIdle)
    /\ (own # "weekly" => WeeklyIdle)
    /\ (own # "history" => HistoryIdle)
    /\ (own # "parallel" => ParallelIdle)
    /\ (own # "read" => ReadIdle)
    /\ (own # "money" => MoneyIdle)
    /\ (own # "customers" => CustomersIdle)

FetchStart == FetchInit /\ OthersIdle("fetch")
ChunkStart == ChunkInit /\ OthersIdle("chunk")
BackfillStart == BackfillInit /\ OthersIdle("backfill")
ConvertStart == ConvertInit /\ OthersIdle("convert")
UploadStart == UploadInit /\ OthersIdle("upload")
CapacityStart == CapacityInit /\ OthersIdle("capacity")
UpdateStart == UpdateInit /\ OthersIdle("update")
WeeklyStart == WeeklyInit /\ OthersIdle("weekly")
HistoryStart == HistoryInit /\ OthersIdle("history")
ParallelStart == ParallelInit /\ OthersIdle("parallel")
ReadStart == ReadInit /\ OthersIdle("read")
MoneyStart == MoneyInit /\ OthersIdle("money")
CustomersStart == CustomersInit /\ OthersIdle("customers")

SpecFetch == FetchStart /\ [][FetchNext]_vars

\* every started call keeps running: the loop has no blocking step
SpecChunk == ChunkStart /\ [][ChunkNext]_vars /\ WF_vars(ChunkNext)

SpecBackfill == BackfillStart /\ [][BackfillNext]_vars

SpecConvert == ConvertStart /\ [][ConvertNext]_vars

SpecUpload == UploadStart /\ [][UploadNext]_vars

SpecCapacity == CapacityStart /\ [][CapacityNext]_vars

SpecUpdate == UpdateStart /\ [][UpdateNext]_vars

SpecWeekly == WeeklyStart /\ [][WeeklyNext]_vars

SpecHistory == HistoryStart /\ [][HistoryNext]_vars

SpecParallel == ParallelStart /\ [][ParallelNext]_vars

SpecRead == ReadStart /\ [][ReadNext]_vars

SpecMoney == MoneyStart /\ [][MoneyNext]_vars

SpecCustomers == CustomersStart /\ [][CustomersNext]_vars

====
